---- MODULE Spec2Model ----
(***************************************************************************)
(* Model of the interior worker:                                           *)
(*   - WarningHandler.evaluate           (src/warning_handler.py)          *)
(*   - BlocksToLatexConverter._escape_latex / _apply_marks /               *)
(*     _convert_block / convert           (src/blocks_to_latex.py)         *)
(*   - InteriorProcessor.process_service (src/pronto_worker_2.py)          *)
(* Strings that are only compared or joined are sequences of tokens;       *)
(* strings that are sliced or scanned are sequences of one-character       *)
(* strings.  An Optional value is None (<<>>) or Some(x) (<<x>>).          *)
(***************************************************************************)
EXTENDS Integers, Sequences, FiniteSets, TLC

\* ------------------------------------------------------------------ bounds
MaxWarnings == 6
MaxEscLen == 2
MaxTextLen == 3
MaxMarks == 2
MaxBlockTextLen == 2
MaxBlockMarks == 1
MaxBlocks == 3
MaxRequests == 2
MaxSpanTextLen == 3
MaxSpanMarks == 2
MaxDeps == 2
MaxRegistryCalls == 3

\* ------------------------------------------------------------- Optional[T]
None == <<>>
Some(x) == <<x>>

\* ---------------------------------------------------------- WarningHandler
\* The three rule tables of WarningHandler.__init__: code -> message.
fail_rules ==
  [c \in {"DETECTED_IMAGES", "DETECTED_TABLES"} |->
     CASE c = "DETECTED_IMAGES" -> "Images not supported in MVP"
       [] c = "DETECTED_TABLES" -> "Tables not supported in MVP"]

degrade_rules ==
  [c \in {"DETECTED_FOOTNOTES", "POEM_LIKE_BLOCKS", "UNICODE_RISK",
          "EXCESSIVE_WHITESPACE", "CENTERED_TEXT_BLOCKS", "OCR_ARTIFACTS",
          "FORMATTING_INCONSISTENCY"} |->
     CASE c = "DETECTED_FOOTNOTES" -> "Footnotes rendered inline"
       [] c = "POEM_LIKE_BLOCKS" -> "Poetry rendered as blockquotes"
       [] c = "UNICODE_RISK" -> "Non-standard characters may render incorrectly"
       [] c = "EXCESSIVE_WHITESPACE" -> "Extra spacing normalized"
       [] c = "CENTERED_TEXT_BLOCKS" -> "Centered text rendered left-aligned"
       [] c = "OCR_ARTIFACTS" -> "OCR errors may affect quality"
       [] c = "FORMATTING_INCONSISTENCY" -> "Inconsistent formatting normalized"]

proceed_rules ==
  [c \in {"LOW_CHAPTER_CONFIDENCE"} |->
     "Chapter detection uncertain but proceeding"]

max_degrade_warnings == 5

\* Warning codes the model feeds to evaluate: both FAIL codes, two DEGRADE
\* codes, the PROCEED code and a code that is in none of the tables.
WarningCodes ==
  {"DETECTED_IMAGES", "DETECTED_TABLES", "DETECTED_FOOTNOTES", "UNICODE_RISK",
   "LOW_CHAPTER_CONFIDENCE", "SOMETHING_ELSE"}

\* ProcessingDecision(action, reason=None, degradations=None)
ProcessingDecision(a, r, d) == [action |-> a, reason |-> r, degradations |-> d]

\* [rules[code] for code in codes if code in rules], as a sequence.
RECURSIVE Matching(_, _)
Matching(ws, rules) ==
  IF ws = <<>> THEN <<>>
  ELSE (IF Head(ws) \in DOMAIN rules THEN <<rules[Head(ws)]>> ELSE <<>>)
         \o Matching(Tail(ws), rules)

\* sep.join(parts), as a token sequence.
RECURSIVE Join(_, _)
Join(parts, sep) ==
  IF parts = <<>> THEN <<>>
  ELSE IF Len(parts) = 1 THEN <<parts[1]>>
  ELSE <<parts[1], sep>> \o Join(Tail(parts), sep)

\* The decision of the early return for an empty warning list.
NoWarningsDecisionEmptyList == ProcessingDecision("PROCEED", None, Some(<<>>))
NoWarningsDecision == ProcessingDecision("PROCEED", None, None)

\* fail_warnings, as the messages of the FAIL-matching warnings in input order.
FailMessagesFirstOnly(ws) == Matching(SubSeq(ws, 1, 1), fail_rules)
FailMessages(ws) == Matching(ws, fail_rules)

\* f"Cannot process: {', '.join([self.fail_rules[code] for code in fail_warnings])}"
FailReasonFirst(fail_msgs) == <<"Cannot process: ", Head(fail_msgs)>>
FailReason(fail_msgs) == <<"Cannot process: ">> \o Join(fail_msgs, ", ")

\* degradations: the messages of the DEGRADE-matching warnings in input order.
RECURSIVE DegradeMessagesDedup(_)
DegradeMessagesDedup(ws) ==
  IF ws = <<>> THEN <<>>
  ELSE LET init == SubSeq(ws, 1, Len(ws) - 1)
           last == ws[Len(ws)]
       IN DegradeMessagesDedup(init) \o
          (IF last \in DOMAIN degrade_rules
                /\ \A i \in 1..Len(init) : init[i] # last
             THEN <<degrade_rules[last]>> ELSE <<>>)
DegradeMessages(ws) == Matching(ws, degrade_rules)

\* len(degrade_warnings): the number of DEGRADE-matching warnings.
DegradeCountAll(ws) == Len(ws)
DegradeCount(ws) == Len(Matching(ws, degrade_rules))

\* The threshold test of evaluate: len(degrade_warnings) > max_degrade_warnings.
TooManyDegradeOffByOne(n) == n >= max_degrade_warnings
TooManyDegrade(n) == n > max_degrade_warnings

\* WarningHandler.evaluate(warnings); ws is the sequence of the warnings' codes.
evaluate(ws) ==
  IF ws = <<>> THEN NoWarningsDecision
  ELSE LET fail_msgs == FailMessages(ws)
           degradations == DegradeMessages(ws)
           n == DegradeCount(ws)
           proceed_msgs == Matching(ws, proceed_rules)
       IN IF fail_msgs # <<>>
            THEN ProcessingDecision("FAIL", Some(FailReason(fail_msgs)), None)
          ELSE IF TooManyDegrade(n)
            THEN ProcessingDecision("FAIL",
                   Some(<<"Too many edge cases (", ToString(n),
                          " warnings) - quality would be poor">>), None)
          ELSE IF n > 0
            THEN ProcessingDecision("DEGRADE",
                   Some(<<ToString(n), " edge cases detected">>),
                   Some(degradations))
          ELSE IF proceed_msgs # <<>>
            THEN ProcessingDecision("PROCEED", None, None)
          ELSE ProcessingDecision("PROCEED", None, None)

\* ------------------------------------------------- BlocksToLatexConverter
\* self.latex_escapes, in the insertion order the dict is iterated in:
\* each entry is <<character, replacement>>.
latex_escapes ==
  << <<"&", <<"\\", "&">> >>,
     <<"%", <<"\\", "%">> >>,
     <<"$", <<"\\", "$">> >>,
     <<"#", <<"\\", "#">> >>,
     <<"_", <<"\\", "_">> >>,
     <<"{", <<"\\", "{">> >>,
     <<"}", <<"\\", "}">> >>,
     <<"~", <<"\\", "t", "e", "x", "t", "a", "s", "c", "i", "i",
              "t", "i", "l", "d", "e", "{", "}">> >>,
     <<"^", <<"\\", "t", "e", "x", "t", "a", "s", "c", "i", "i",
              "c", "i", "r", "c", "u", "m", "{", "}">> >>,
     <<"\\", <<"\\", "t", "e", "x", "t", "b", "a", "c", "k",
               "s", "l", "a", "s", "h", "{", "}">> >> >>

\* Characters of the texts handed to _escape_latex: every reserved character
\* and one ordinary letter.
EscAlphabet == {"&", "%", "$", "#", "_", "{", "}", "~", "^", "\\", "a"}

\* Characters of the texts handed to _apply_marks.
TextAlphabet == {"a", "&"}

\* Mark types of the marks handed to _apply_marks; "underline" is a type
\* _apply_marks has no command for.
MarkTypes == {"italic", "bold", "underline"}

\* Every mark type _apply_marks has a command for, and one it has none for.
AllMarkTypes == {"italic", "bold", "smallcaps", "code", "underline"}

\* text.replace(char, escaped) for a one-character pattern.
RECURSIVE Replace(_, _, _)
Replace(t, char, escaped) ==
  IF t = <<>> THEN <<>>
  ELSE (IF Head(t) = char THEN escaped ELSE <<Head(t)>>)
         \o Replace(Tail(t), char, escaped)

\* The loop of _escape_latex from table entry i on: one whole-string
\* replacement per entry, each applied to the result of the one before.
RECURSIVE EscapeFrom(_, _)
EscapeFrom(t, i) ==
  IF i > Len(latex_escapes) THEN t
  ELSE EscapeFrom(Replace(t, latex_escapes[i][1], latex_escapes[i][2]), i + 1)

\* BlocksToLatexConverter._escape_latex(text)
escape_latex(t) == EscapeFrom(t, 1)

\* Python's s[a:b] for 0 <= a, 0 <= b (out-of-range bounds are clamped).
Slice(s, a, b) ==
  LET hi == IF b < Len(s) THEN b ELSE Len(s)
  IN IF a >= hi THEN <<>> ELSE SubSeq(s, a + 1, hi)

\* The wrapper _apply_marks puts around the escaped text of a mark.
WrapCodeAsSmallcaps(mark_type, escaped_text) ==
  CASE mark_type = "italic" ->
         <<"\\", "t", "e", "x", "t", "i", "t", "{">> \o escaped_text \o <<"}">>
    [] mark_type = "bold" ->
         <<"\\", "t", "e", "x", "t", "b", "f", "{">> \o escaped_text \o <<"}">>
    [] mark_type \in {"smallcaps", "code"} ->
         <<"\\", "t", "e", "x", "t", "s", "c", "{">> \o escaped_text \o <<"}">>
    [] OTHER -> escaped_text
Wrap(mark_type, escaped_text) ==
  CASE mark_type = "italic" ->
         <<"\\", "t", "e", "x", "t", "i", "t", "{">> \o escaped_text \o <<"}">>
    [] mark_type = "bold" ->
         <<"\\", "t", "e", "x", "t", "b", "f", "{">> \o escaped_text \o <<"}">>
    [] mark_type = "smallcaps" ->
         <<"\\", "t", "e", "x", "t", "s", "c", "{">> \o escaped_text \o <<"}">>
    [] mark_type = "code" ->
         <<"\\", "t", "e", "x", "t", "t", "t", "{">> \o escaped_text \o <<"}">>
    [] OTHER -> escaped_text

\* One iteration of the loop of _apply_marks: the new value of result.
MarkStep(res, mark) ==
  LET marked_text == Slice(res, mark.start, mark.end)
      escaped_text == escape_latex(marked_text)
      wrapped == Wrap(mark.type, escaped_text)
  IN Slice(res, 0, mark.start) \o wrapped \o Slice(res, mark.end, Len(res))

\* Insert mark m into the descending-start sequence s behind every mark
\* whose start is >= m.start (a stable insertion).
RECURSIVE InsertDesc(_, _)
InsertDesc(s, m) ==
  IF s = <<>> THEN <<m>>
  ELSE IF Head(s).start >= m.start THEN <<Head(s)>> \o InsertDesc(Tail(s), m)
  ELSE <<m>> \o s

\* sorted(marks, key=lambda m: m['start'], reverse=True): descending start,
\* marks of equal start in their input order.
SortedInInputOrder(ms) == ms
RECURSIVE Sorted(_)
Sorted(ms) ==
  IF ms = <<>> THEN <<>>
  ELSE InsertDesc(Sorted(SubSeq(ms, 1, Len(ms) - 1)), ms[Len(ms)])

\* The loop of _apply_marks over sorted_marks from index i on.
RECURSIVE ApplyFrom(_, _, _)
ApplyFrom(res, sm, i) ==
  IF i > Len(sm) THEN res ELSE ApplyFrom(MarkStep(res, sm[i]), sm, i + 1)

\* The early return of _apply_marks for an empty mark list.
NoMarksResultUnescaped(t) == t
NoMarksResult(t) == escape_latex(t)

\* BlocksToLatexConverter._apply_marks(text, marks)
apply_marks(t, ms) ==
  IF ms = <<>> THEN NoMarksResult(t) ELSE ApplyFrom(t, Sorted(ms), 1)

\* ----------------------------------------------------------- block renderer
\* A rendered fragment is a sequence whose elements are the characters of the
\* styled text and, as one element each, the literal pieces of the f-strings.

\* The block types _convert_block dispatches on, and one it does not know.
BlockTypes ==
  {"title_page", "front_matter_heading", "front_matter_text",
   "chapter_heading", "paragraph", "scene_break", "back_matter_heading",
   "back_matter_text", "blockquote", "list_item", "epigraph",
   "image_placeholder", "table_placeholder", "footnote", "sidebar"}

\* Values of meta['chapter_number'] in the model.
ChapterNumbers == {0, 1, 2}

\* Python truthiness of a chapter number: if chapter_num:
Truthy(v) == v # 0

\* A block: its type, text, marks, and meta reduced to the Optional value of
\* meta.get('chapter_number').
Block(ty, t, ms, m) == [type |-> ty, text |-> t, marks |-> ms, meta |-> m]

\* _convert_title_page
convert_title_page(t, m) == <<"% TITLE_PAGE_PLACEHOLDER">>

\* f"\\chapter*{{{text}}}\n\\addcontentsline{{toc}}{{chapter}}{{{text}}}"
UnnumberedHeading(t) ==
  <<"\\chapter*{">> \o t \o <<"}", "\n", "\\addcontentsline{toc}{chapter}{">>
     \o t \o <<"}">>

\* _convert_front_matter_heading
convert_front_matter_heading(t) == UnnumberedHeading(t)

\* _convert_chapter_heading: meta is None when the key is absent.
convert_chapter_heading(t, m) ==
  IF m # None /\ Truthy(m[1])
    THEN <<"\\chapter{">> \o t \o <<"}">>
    ELSE UnnumberedHeading(t)

\* _convert_scene_break
convert_scene_break == <<"\\scenebreak">>

\* _convert_back_matter_heading
convert_back_matter_heading(t) == UnnumberedHeading(t)

\* _convert_blockquote
convert_blockquote_ignoring_mode(t, degraded_) ==
  <<"\\begin{quotation}", "\n">> \o t \o <<"\n", "\\end{quotation}">>
convert_blockquote(t, degraded_) ==
  IF degraded_
    THEN <<"\\begin{quote}", "\n">> \o t \o <<"\n", "\\end{quote}">>
    ELSE <<"\\begin{quotation}", "\n">> \o t \o <<"\n", "\\end{quotation}">>

\* _convert_list_item; the degraded prefix is U+2022 and a space.
convert_list_item(t, degraded_) ==
  IF degraded_ THEN <<"<U+2022> ">> \o t ELSE <<"\\item ">> \o t

\* _convert_epigraph
convert_epigraph(t, degraded_) ==
  IF degraded_
    THEN <<"\\begin{flushright}", "\n", "\\textit{">> \o t
           \o <<"}", "\n", "\\end{flushright}">>
    ELSE <<"\\epigraph{">> \o t \o <<"}{}">>

\* The branch of _convert_block for image_placeholder, table_placeholder and
\* footnote.
convert_unsupported_always_marker(block_type_, degraded_) ==
  <<"% UNSUPPORTED: ", block_type_>>
convert_unsupported(block_type_, degraded_) ==
  IF degraded_ THEN <<"% UNSUPPORTED: ", block_type_>> ELSE <<>>

\* BlocksToLatexConverter._convert_block(block, degraded)
convert_block(b, degraded_) ==
  LET formatted_text == apply_marks(b.text, b.marks)
  IN CASE b.type = "title_page" -> convert_title_page(formatted_text, b.meta)
       [] b.type = "front_matter_heading" ->
            convert_front_matter_heading(formatted_text)
       [] b.type = "front_matter_text" -> formatted_text
       [] b.type = "chapter_heading" ->
            convert_chapter_heading(formatted_text, b.meta)
       [] b.type = "paragraph" -> formatted_text
       [] b.type = "scene_break" -> convert_scene_break
       [] b.type = "back_matter_heading" ->
            convert_back_matter_heading(formatted_text)
       [] b.type = "back_matter_text" -> formatted_text
       [] b.type = "blockquote" -> convert_blockquote(formatted_text, degraded_)
       [] b.type = "list_item" -> convert_list_item(formatted_text, degraded_)
       [] b.type = "epigraph" -> convert_epigraph(formatted_text, degraded_)
       [] b.type \in {"image_placeholder", "table_placeholder", "footnote"} ->
            convert_unsupported(b.type, degraded_)
       [] OTHER -> formatted_text

\* ------------------------------------------------------ document assembler
\* The first entry of latex_parts.
PreamblePlaceholder == <<"% PREAMBLE_PLACEHOLDER">>

\* What the loop of convert appends for one rendered fragment:
\* if latex: latex_parts.append(latex); latex_parts.append("")
PartsOfKeepingEmpty(latex) == <<latex, <<>>>>
PartsOf(latex) == IF latex # <<>> THEN <<latex, <<>>>> ELSE <<>>

\* latex_parts at the start of convert: the placeholder and "".
InitialPartsBare == <<PreamblePlaceholder>>
InitialParts == <<PreamblePlaceholder, <<>>>>

\* latex_parts after the loop of convert over bs.
RECURSIVE LatexParts(_, _)
LatexParts(bs, degraded_) ==
  IF bs = <<>> THEN InitialParts
  ELSE LatexParts(SubSeq(bs, 1, Len(bs) - 1), degraded_)
         \o PartsOf(convert_block(bs[Len(bs)], degraded_))

\* "\n".join(latex_parts)
RECURSIVE JoinLines(_)
JoinLines(parts) ==
  IF parts = <<>> THEN <<>>
  ELSE IF Len(parts) = 1 THEN parts[1]
  ELSE parts[1] \o <<"\n">> \o JoinLines(Tail(parts))

\* BlocksToLatexConverter.convert(blocks, params, degraded_mode); params is
\* not read by convert.
convert(bs, degraded_) == JoinLines(LatexParts(bs, degraded_))

\* Blocks the model hands to convert: one with reserved text, one with empty
\* text (an empty fragment), a placeholder (empty unless degraded), a
\* blockquote with a mark, and an unnumbered chapter heading.
BlockPool ==
  { Block("paragraph", <<"a", "&">>, <<>>, None),
    Block("paragraph", <<>>, <<>>, None),
    Block("image_placeholder", <<"a">>, <<>>, None),
    Block("blockquote", <<"a">>,
          <<[type |-> "italic", start |-> 0, end |-> 1]>>, None),
    Block("chapter_heading", <<"a">>, <<>>, None) }

\* ------------------------------------------------------- process_service
\* The fields written by _claim_service; timestamps are the token "now".
ClaimFields ==
  ("Status" :> "Processing") @@ ("Started At" :> "now")
    @@ ("Worker Version" :> "1.1.0")

\* The fields written by _complete_service.
CompleteFields(pdf_url, pdf_key) ==
  ("Status" :> "Complete") @@ ("Finished At" :> "now")
    @@ ("Artifact URL" :> pdf_url) @@ ("Artifact Key" :> pdf_key)
    @@ ("Artifact Type" :> "interior_pdf")
    @@ ("Operator Notes" :> "Interior PDF: {...}")

\* The fields written by _fail_service(service_id, error_message).
FailFieldsGenericText(error_message) ==
  ("Status" :> "Failed") @@ ("Finished At" :> "now")
    @@ ("Error Log" :> <<"Processing failed">>)
FailFields(error_message) ==
  ("Status" :> "Failed") @@ ("Finished At" :> "now")
    @@ ("Error Log" :> error_message)

\* The result process_service returns from its except branch (service_id and
\* run_id left out).
FailureResult(e) == [success |-> FALSE, error |-> Some(e)]

\* The result process_service returns at the end of the try block.
SuccessResult == [success |-> TRUE, error |-> None]

\* if decision.action == "FAIL": raise ...
PolicyNeverRefuses(d) == FALSE
PolicyRefuses(d) == d.action = "FAIL"

\* degraded_mode=(decision.action == "DEGRADE")
DegradedMode(d) == d.action = "DEGRADE"

\* The warning lists of the artifacts the model downloads.
RunWarningLists ==
  { <<>>,
    <<"LOW_CHAPTER_CONFIDENCE">>,
    <<"DETECTED_FOOTNOTES">>,
    <<"DETECTED_IMAGES">>,
    <<"UNICODE_RISK", "DETECTED_TABLES">> }

\* ----------------------------------------------------------- PDFValidator
\* PDFValidator.__init__: the thresholds.
max_file_size_mb == 500
min_pages == 24
max_pages == 828

\* pdf_file.stat().st_size values (bytes) around the size ceiling.
FileSizes == {0, 500 * 1024 * 1024, 500 * 1024 * 1024 + 1}

\* What _get_page_count does: it returns the int of the Pages field, or it
\* raises (pdfinfo failed, is not installed, or printed no Pages field).
PageCountResult(n, e) == [pages |-> n, error |-> e]
PageCountResults ==
  { PageCountResult(Some(n), None) : n \in {1, 23, 24, 828, 829} }
    \cup { PageCountResult(None, Some("pdfinfo not installed")),
           PageCountResult(None, Some("Pages field not found in pdfinfo output")) }

\* What _get_pdf_version returns: the text after 'PDF version:', or "unknown"
\* when pdfinfo fails or prints no such line; it never raises.
PdfVersions ==
  { <<"1", ".", "4">>, <<"1", ".", "7">>, <<"2", ".", "0">>,
    <<"u", "n", "k", "n", "o", "w", "n">>, <<>> }

\* The PDF files handed to validate: one that does not exist and every
\* combination of size, pdfinfo page count and pdfinfo version.
PdfFile(ex, sz, pc_, ver) ==
  [exists |-> ex, st_size |-> sz, page_count |-> pc_, version |-> ver]
PdfFiles ==
  { PdfFile(TRUE, sz, pc_, ver) :
      sz \in FileSizes, pc_ \in PageCountResults, ver \in PdfVersions }
    \cup { PdfFile(FALSE, 0, PageCountResult(None, Some("pdfinfo failed")), <<>>) }

\* file_size_mb > self.max_file_size_mb, with file_size_mb = st_size / 2^20.
FileTooLarge(st_size) == st_size > max_file_size_mb * 1024 * 1024

\* pdf_version.startswith('1.')
StartsWithOneDot(ver) == Len(ver) >= 2 /\ SubSeq(ver, 1, 2) = <<"1", ".">>

\* The errors validate collects, in the order of its checks.
ValidateErrors(f) ==
  (IF FileTooLarge(f.st_size) THEN << <<"File too large">> >> ELSE <<>>)
    \o (IF f.page_count.pages = None
          THEN << <<"Could not determine page count: ", f.page_count.error[1]>> >>
        ELSE IF f.page_count.pages[1] > max_pages
          THEN << <<"Page count too high">> >>
        ELSE <<>>)

\* The warnings validate collects, in the order of its checks.
ValidateWarnings(f) ==
  (IF f.page_count.pages # None /\ f.page_count.pages[1] < min_pages
     THEN << <<"Page count low">> >> ELSE <<>>)
    \o (IF f.version # <<>> /\ ~StartsWithOneDot(f.version)
          THEN << <<"PDF version may not be compatible">> >> ELSE <<>>)

\* PDFValidator.validate(pdf_file); the early return for a missing file has
\* the keys valid and errors only.
validate(f) ==
  IF ~f.exists
    THEN [valid |-> FALSE, errors |-> << <<"PDF file not found">> >>,
          warnings |-> <<>>, page_count |-> None]
    ELSE [valid |-> Len(ValidateErrors(f)) = 0,
          errors |-> ValidateErrors(f),
          warnings |-> ValidateWarnings(f),
          page_count |-> f.page_count.pages]

\* ----------------------------------------------------------- PDFGenerator
\* for run_num in [1, 2]
PassNumbers == <<1, 2>>

\* Exit statuses of the typesetter in the model.
ReturnCodes == {0, 1, 2}

\* The files of the run in output_dir: the PDF and the auxiliary files.
aux_extensions == {".aux", ".log", ".out", ".toc"}
OutputFiles == {".pdf"} \cup aux_extensions

\* if result.returncode != 0: raise RuntimeError(...)
ReturnCodeFailsOnOne(rc) == rc = 1
ReturnCodeFails(rc) == rc # 0

\* _cleanup_aux_files: the files left when every auxiliary file is unlinked.
cleanup_aux_files(files) == files \ aux_extensions

\* ------------------------------------------------------- validate_artifact
\* Python values whose type matters to a caller: a str and a dict.
Str(v) == [py |-> "str", v |-> v]
Dict(d) == [py |-> "dict", v |-> d]

\* Values of artifact.get("artifact_type") / artifact.get("schema_version"):
\* absent (None), the empty string, the expected value and another value.
ArtifactTypeValues == {None, Some(""), Some("manuscript"), Some("cover")}
SchemaVersionValues == {None, Some(""), Some("1.0"), Some("2.0")}

\* The expected_artifact_type / expected_schema_version arguments: not
\* supplied (None) or the values process_service passes.
ExpectedTypes == {None, Some("manuscript")}
ExpectedVersions == {None, Some("1.0")}

\* What get_schema(artifact_type, schema_version) does for the document's
\* key: it returns the schema, raises SchemaNotFoundError (no file) or raises
\* SchemaLoadError (a file that cannot be read or parsed).
SchemaFileStates == {"ok", "missing", "corrupt"}

\* list(validator.iter_errors(artifact)) as <<path, message>> pairs; an
\* empty path stands for error.path being empty.
IterErrorLists ==
  { <<>>,
    << <<"content.blocks", "is a required property">> >>,
    << <<"", "'x' is not of type 'object'">>,
       <<"content.blocks.0.type", "'video' is not one of [...]">> >> }

\* if not artifact_type / if not schema_version
Falsy(v) == v = None \/ v = Some("")

\* An entry of validation_errors raised by one of the field checks and by
\* the schema lookup: the keys path, message, value.
FieldError(path, message) ==
  Dict([path |-> path, message |-> message, value |-> "value"])

\* An entry of validation_errors built from a jsonschema error: the keys
\* path, message, value, schema_path.
ContentError(e) ==
  Dict([path |-> IF e[1] = "" THEN "root" ELSE e[1], message |-> e[2],
        value |-> "instance", schema_path |-> "schema_path"])

\* What a call leaves behind: nothing raised (it returned None), or the
\* exception raised with its validation_errors.
Returned == [raised |-> "none", validation_errors |-> <<>>]
Raised(kind, errors) == [raised |-> kind, validation_errors |-> errors]

\* lib/artifact_validate.validate_artifact(artifact, expected_artifact_type,
\* expected_schema_version), for an artifact a whose schema file is in state
\* sf and whose schema violations are a.iter_errors.
core_validate_artifact(a, exp_type, exp_version, sf) ==
  IF Falsy(a.artifact_type)
    THEN Raised("ArtifactValidationError",
                <<FieldError("artifact_type",
                             "Missing required field 'artifact_type'")>>)
  ELSE IF Falsy(a.schema_version)
    THEN Raised("ArtifactValidationError",
                <<FieldError("schema_version",
                             "Missing required field 'schema_version'")>>)
  ELSE IF ~Falsy(exp_type) /\ a.artifact_type # exp_type
    THEN Raised("ArtifactValidationError",
                <<FieldError("artifact_type", "Expected artifact_type ...")>>)
  ELSE IF ~Falsy(exp_version) /\ a.schema_version # exp_version
    THEN Raised("ArtifactValidationError",
                <<FieldError("schema_version", "Expected schema_version ...")>>)
  ELSE IF sf = "missing"
    THEN Raised("ArtifactValidationError",
                <<FieldError("schema", "Schema not found: ...")>>)
  ELSE IF sf = "corrupt"
    THEN Raised("SchemaLoadError", <<>>)
  ELSE IF a.iter_errors # <<>>
    THEN Raised("ArtifactValidationError",
                [i \in 1..Len(a.iter_errors) |-> ContentError(a.iter_errors[i])])
  ELSE Returned

\* ArtifactValidationError._build_message / str(e): one string that names
\* the number of errors and the path and message of each.
ExceptionText(out) ==
  IF out.raised = "ArtifactValidationError"
    THEN Str(<<"Artifact validation failed: ", Len(out.validation_errors),
               [i \in 1..Len(out.validation_errors) |->
                  <<out.validation_errors[i].v.path,
                    out.validation_errors[i].v.message>>]>>)
    ELSE Str(<<"Failed to load schema">>)

\* src/artifact_validator.validate_artifact: it subscripts the value the
\* core function returned, which is None, so a call that raised nothing
\* ends in the except branch with the TypeError's text.
worker_validate_artifact(a, exp_type, exp_version, sf) ==
  LET out == core_validate_artifact(a, exp_type, exp_version, sf)
  IN IF out.raised = "none"
       THEN [valid |-> FALSE,
             errors |-> <<Str(<<"'NoneType' object is not subscriptable">>)>>]
       ELSE [valid |-> FALSE, errors |-> <<ExceptionText(out)>>]

\* src/lib/artifact_validator.validate_artifact: None means valid; any
\* exception becomes one error string.
lib_validate_artifact(a, exp_type, exp_version, sf) ==
  LET out == core_validate_artifact(a, exp_type, exp_version, sf)
  IN IF out.raised = "none"
       THEN [valid |-> TRUE, errors |-> <<>>]
       ELSE [valid |-> FALSE, errors |-> <<ExceptionText(out)>>]

\* ------------------------------------------------------------------ app.py
\* What request.get_json() gives for the body of a POST /process: it raises
\* for a body that is not JSON, and otherwise returns the parsed value: None
\* for null, a dict with some keys, or a number.
JsonBody(kind, keys, n) == [kind |-> kind, keys |-> keys, n |-> n]
RequestBodies ==
  { JsonBody("malformed", {}, 0), JsonBody("null", {}, 0),
    JsonBody("number", {}, 0), JsonBody("number", {}, 5),
    JsonBody("object", {}, 0), JsonBody("object", {"other"}, 0),
    JsonBody("object", {"service_id"}, 0),
    JsonBody("object", {"service_id", "other"}, 0) }

\* not data: None, the empty dict and the number 0 are falsy.
NotData(b) ==
  \/ b.kind = "null"
  \/ b.kind = "object" /\ b.keys = {}
  \/ b.kind = "number" /\ b.n = 0

\* The results process_service can return to the handler.
ServiceResults ==
  { SuccessResult, FailureResult(<<"Service ", "rec1", " not found">>) }

\* A response: the status, the JSON body, and the number of process_service
\* invocations the handler made.
Response(route, req, status, body, invoked) ==
  [route |-> route, request |-> req, status |-> status, body |-> body,
   invoked |-> invoked]

\* The body of the 400 response and of the except branch.
MissingServiceId ==
  [success |-> FALSE, error |-> Some(<<"Missing service_id in request body">>)]
HandlerError(e) == [success |-> FALSE, error |-> Some(<<e>>)]

\* if result['success']: 200 else: 500
StatusOfResult(res) == IF res.success THEN 200 ELSE 500

\* process(): the handler of POST /process for body b, when the constructor
\* InteriorProcessor() raises (ctor_ok false) or not, and process_service
\* returns res.
process(b, ctor_ok, res) ==
  IF b.kind = "malformed"
    THEN Response("/process", b, 500, HandlerError("400 Bad Request"), 0)
  ELSE IF NotData(b)
    THEN Response("/process", b, 400, MissingServiceId, 0)
  ELSE IF b.kind = "number"
    THEN Response("/process", b, 500,
                  HandlerError("argument of type 'int' is not iterable"), 0)
  ELSE IF "service_id" \notin b.keys
    THEN Response("/process", b, 400, MissingServiceId, 0)
  ELSE IF ~ctor_ok
    THEN Response("/process", b, 500,
                  HandlerError("AIRTABLE_TOKEN environment variable not set"), 0)
  ELSE Response("/process", b, StatusOfResult(res), res, 1)

\* health(): the handler of GET /health.
health ==
  Response("/health", JsonBody("null", {}, 0), 200,
           [status |-> "healthy", service |-> "worker_2_interior_formatter",
            version |-> "1.1.0"], 0)

\* ------------------------------------------------ _get_formatting_parameters
\* defaults
defaults ==
  [trim_size |-> "6x9", font |-> "Garamond", chapter_style |-> "numbered",
   genre |-> "fiction", author_name |-> "Author", book_title |-> "Untitled"]

\* Values of a link field (service 'Project', project 'Book Metadata'):
\* the field is absent (None), an empty list, or a list of record ids.
LinkValues == {None, Some(<<>>), Some(<<"rec_a">>), Some(<<"rec_a", "rec_b">>)}

\* record.get(field, []) for a link field.
GetLinks(v) == IF v = None THEN <<>> ELSE v[1]

\* The fields a Book Metadata record can carry, with their values.
MetadataValue(f) ==
  CASE f = "Trim Size" -> "5x8"
    [] f = "Author Name" -> "Jane Doe"
    [] f = "Book Title" -> "My Book"
    [] OTHER -> "x"
MetadataRecords ==
  { [f \in fs |-> MetadataValue(f)] :
      fs \in SUBSET {"Trim Size", "Author Name", "Book Title", "ISBN"} }

\* What a lookup of the record client gives: the record's fields, None (not
\* found, or an error the client caught), or an exception.
Found(fields) == [outcome |-> "found", fields |-> fields]
NotFound == [outcome |-> "none", fields |-> <<>>]
LookupRaises == [outcome |-> "raises", fields |-> <<>>]

\* get_project(project_id): a project with some 'Book Metadata' link value.
ProjectLookups ==
  { Found([links |-> l]) : l \in LinkValues } \cup {NotFound, LookupRaises}

\* get_book_metadata(metadata_id)
MetadataLookups ==
  { Found(m) : m \in MetadataRecords } \cup {NotFound, LookupRaises}

\* if not project / if not metadata: None and a record without fields.
NoRecord(l) == l.outcome = "none" \/ (l.outcome = "found" /\ l.fields = <<>>)

\* metadata.get(field, default)
GetOr(m, f, d) == IF f \in DOMAIN m THEN m[f] ELSE d

\* The dict built from the Book Metadata record.
ParamsFromMetadataNoStyle(m) ==
  [trim_size |-> GetOr(m, "Trim Size", defaults.trim_size),
   font |-> defaults.font,
   genre |-> defaults.genre,
   author_name |-> GetOr(m, "Author Name", defaults.author_name),
   book_title |-> GetOr(m, "Book Title", defaults.book_title)]
ParamsFromMetadata(m) ==
  [trim_size |-> GetOr(m, "Trim Size", defaults.trim_size),
   font |-> defaults.font,
   chapter_style |-> defaults.chapter_style,
   genre |-> defaults.genre,
   author_name |-> GetOr(m, "Author Name", defaults.author_name),
   book_title |-> GetOr(m, "Book Title", defaults.book_title)]

\* InteriorProcessor._get_formatting_parameters(service): service_project is
\* the service's 'Project' field, pl and ml what get_project and
\* get_book_metadata do when they are called.  The value is what the
\* method returns; an exception inside the try block returns defaults.
get_formatting_parameters(service_project, pl, ml) ==
  IF GetLinks(service_project) = <<>> THEN defaults
  ELSE IF pl.outcome = "raises" THEN defaults
  ELSE IF NoRecord(pl) THEN defaults
  ELSE IF GetLinks(pl.fields.links) = <<>> THEN defaults
  ELSE IF ml.outcome = "raises" THEN defaults
  ELSE IF NoRecord(ml) THEN defaults
  ELSE ParamsFromMetadata(ml.fields)

\* ------------------------------------------------- _find_manuscript_artifact
\* get_service_type(service_type_id): the 'Service Name' of the catalog
\* record, None for an id that cannot be fetched.
ServiceTypeName(id) ==
  CASE id = "t_ms" -> Some("Manuscript Processing")
    [] id = "t_cover" -> Some("Cover Design")
    [] OTHER -> None

\* Values of a dependency's 'Service Type' link field (absent reads as []).
ServiceTypeLinks ==
  { <<>>, <<"t_ms">>, <<"t_cover">>, <<"t_gone">>, <<"t_cover", "t_ms">> }

\* Values of dep_service.get('Artifact URL').
ArtifactUrls == {None, Some(""), Some("url_1"), Some("url_2")}

\* A dependency: whether get_service(dep_id) fetches it, and its fields.
Dependency(fetched, links, url) ==
  [fetched |-> fetched, links |-> links, url |-> url]
Dependencies ==
  { Dependency(TRUE, l, u) : l \in ServiceTypeLinks, u \in ArtifactUrls }
    \cup { Dependency(FALSE, <<>>, None) }

\* service_type_id = service_type_links[0]
FirstLinkIsLast(links) == links[Len(links)]
FirstLink(links) == links[1]

\* if artifact_url: a URL that is neither None nor empty.
UrlTruthy(u) == u # None /\ u # Some("")

\* One iteration of the loop over dependencies: the URL returned from inside
\* the loop, or None when the iteration continues with the next dependency.
FindStep(d) ==
  IF ~d.fetched THEN None
  ELSE IF d.links = <<>> THEN None
  ELSE IF ServiceTypeName(FirstLink(d.links)) = None THEN None
  ELSE IF ServiceTypeName(FirstLink(d.links)) = Some("Manuscript Processing")
          /\ UrlTruthy(d.url)
    THEN d.url
  ELSE None

\* --------------------------------------------------------- ArtifactRegistry
\* cache_key = (artifact_type, schema_version): the keys looked up.
CacheKeys == { <<"manuscript", "1.0">>, <<"manuscript", "2.0">> }

\* What is at schema_path: no file, a file that cannot be parsed, or a file
\* holding one of two schema texts.
SchemaFiles == {"missing", "corrupt", "schema_a", "schema_b"}

\* self._schema_cache[cache_key] = schema
CacheAfterLoadNoStore(cache, key, schema) == cache
CacheAfterLoad(cache, key, schema) ==
  [c \in DOMAIN cache \cup {key} |-> IF c = key THEN schema ELSE cache[c]]

\* ArtifactRegistry.get_schema(artifact_type, schema_version) with the cache
\* and the file as they are: what the call does (outcome), the schema it
\* returns, whether it opened the file, and the cache it leaves.
get_schema(cache, key, file) ==
  IF key \in DOMAIN cache
    THEN [outcome |-> "returned", schema |-> Some(cache[key]), read |-> FALSE,
          cache |-> cache]
  ELSE IF file = "missing"
    THEN [outcome |-> "SchemaNotFoundError", schema |-> None, read |-> FALSE,
          cache |-> cache]
  ELSE IF file = "corrupt"
    THEN [outcome |-> "SchemaLoadError", schema |-> None, read |-> TRUE,
          cache |-> cache]
  ELSE [outcome |-> "returned", schema |-> Some(file), read |-> TRUE,
        cache |-> CacheAfterLoad(cache, key, file)]

\* An entry of the call history: a get_schema call, a clear_cache call or a
\* get_default_registry call, with the cache before and after it.
RegistryEvent(op, key, outcome, schema, read, before, after) ==
  [op |-> op, key |-> key, outcome |-> outcome, schema |-> schema,
   read |-> read, before |-> before, after |-> after]

\* ------------------------------------------ interleaved process_service runs
\* The concurrent invocations of process_service for one service id, each
\* in its own request thread of the web server.
Invocations == {1, 2}

\* A write of update_service(service_id, fields) by invocation p: the Status
\* it carries, the Status of the record when table.update ran, and whether
\* table.update succeeded.
StatusWrite(p, status, before, ok) ==
  [inv |-> p, status |-> status, before |-> before, ok |-> ok]

\* -------------------------------------------------------------------- state
VARIABLES
  warnings,     \* the codes of the warning list handed to evaluate
  decision,     \* Optional: the ProcessingDecision evaluate returned
  text,         \* the text handed to _escape_latex / _apply_marks
  marks,        \* the mark list handed to _apply_marks, in input order
  sorted_marks, \* _apply_marks: sorted_marks
  k,            \* _apply_marks: index of the next mark of sorted_marks
  result,       \* _apply_marks: result; also the value returned
  pc,           \* position of the converter call: "input", "loop", "done",
                \* "escaped"
  block_type,   \* _convert_block: block['type']
  meta,         \* _convert_block: Optional meta.get('chapter_number')
  degraded,     \* the degraded flag of the _convert_block / convert call
  fragment,     \* Optional: the fragment _convert_block returned
  blocks,       \* the block list handed to convert
  latex_content, \* Optional: the document convert returned
  rpc,          \* process_service: the step the run is at
  calls,        \* process_service: the collaborators invoked so far, in order
  updates,      \* every update_service call of the run: its fields and
                \* whether table.update succeeded
  record,       \* the fields of the service record in the record store
  valid,        \* Optional: validation_result['valid']
  degraded_mode, \* Optional: the degraded_mode handed to convert
  raised,       \* Optional: the text of the exception raised in the try block
  run_result,   \* Optional: the dict process_service returned
  pdf_file,     \* Optional: the PDF file handed to PDFValidator.validate
  pdf_validation, \* Optional: the dict PDFValidator.validate returned
  gen_pc,       \* generate: "idle", "pass", "check", "returned", "raised"
  run_num,      \* generate: index into PassNumbers of the next pass
  returncodes,  \* generate: the exit status of every typesetter run so far
  out_files,    \* generate: the files of the run present in output_dir
  gen_result,   \* Optional: the path generate returned
  artifact,     \* Optional: the document handed to validate_artifact
  expected,     \* the expected type and version handed to validate_artifact
  schema_file,  \* the state of the schema file of the document's key
  verdict,      \* Optional: the dict validate_artifact returned
  responses,    \* app.py: the response to every request so far, in order
  invocations,  \* app.py: the result of every process_service invocation
  service_project, \* the 'Project' field of the service record
  project_lookup, \* what get_project does for the linked project
  metadata_lookup, \* what get_book_metadata does for the linked metadata
  params,       \* Optional: the dict _get_formatting_parameters returned
  dependencies, \* the records behind the service's Dependencies list, in order
  dep_i,        \* _find_manuscript_artifact: index of the next dependency
  find_pc,      \* "input", "loop", "returned", "failed", "download"
  manuscript_artifact_url, \* Optional: what _find_manuscript_artifact returned
  downloaded,   \* Optional: the URL handed to artifact_downloader.download
  schema_files, \* what is at the schema path of every key
  schema_cache, \* ArtifactRegistry._schema_cache
  default_registry, \* Optional: the module-level _default_registry
  registries_created, \* the number of ArtifactRegistry objects constructed
  reg_log,      \* the registry calls made so far, in order
  inv_pc,       \* the step every concurrent invocation is at
  shared_status, \* the Status of the one service record they work on
  status_writes, \* every update_service call of the invocations, in order
  worked        \* the invocations that ran the steps from convert to upload

vars ==
  <<warnings, decision, text, marks, sorted_marks, k, result, pc,
    block_type, meta, degraded, fragment, blocks, latex_content,
    rpc, calls, updates, record, valid, degraded_mode, raised, run_result,
    pdf_file, pdf_validation,
    gen_pc, run_num, returncodes, out_files, gen_result,
    artifact, expected, schema_file, verdict,
    responses, invocations,
    service_project, project_lookup, metadata_lookup, params,
    dependencies, dep_i, find_pc, manuscript_artifact_url, downloaded,
    schema_files, schema_cache, default_registry, registries_created, reg_log,
    inv_pc, shared_status, status_writes, worked>>
warnVars == <<warnings, decision>>
latexVars == <<text, marks, sorted_marks, k, result, pc>>
blockVars == <<block_type, meta, degraded, fragment>>
docVars == <<blocks, latex_content>>
runVars ==
  <<rpc, calls, updates, record, valid, degraded_mode, raised, run_result>>
pdfVars == <<pdf_file, pdf_validation>>
genVars == <<gen_pc, run_num, returncodes, out_files, gen_result>>
valVars == <<artifact, expected, schema_file, verdict>>
httpVars == <<responses, invocations>>
paramVars == <<service_project, project_lookup, metadata_lookup, params>>
findVars ==
  <<dependencies, dep_i, find_pc, manuscript_artifact_url, downloaded>>
regVars ==
  <<schema_files, schema_cache, default_registry, registries_created, reg_log>>
twoVars == <<inv_pc, shared_status, status_writes, worked>>
extVars == <<genVars, valVars, httpVars, paramVars, findVars, regVars, twoVars>>
restGen == <<valVars, httpVars, paramVars, findVars, regVars, twoVars>>
restVal == <<genVars, httpVars, paramVars, findVars, regVars, twoVars>>
restHttp == <<genVars, valVars, paramVars, findVars, regVars, twoVars>>
restParams == <<genVars, valVars, httpVars, findVars, regVars, twoVars>>
restFind == <<genVars, valVars, httpVars, paramVars, regVars, twoVars>>
restReg == <<genVars, valVars, httpVars, paramVars, findVars, twoVars>>
restTwo == <<genVars, valVars, httpVars, paramVars, findVars, regVars>>
coreVars == <<warnVars, latexVars, blockVars, docVars, runVars, pdfVars>>

Init ==
  /\ warnings = <<>>
  /\ decision = None
  /\ text = <<>>
  /\ marks = <<>>
  /\ sorted_marks = <<>>
  /\ k = 1
  /\ result = <<>>
  /\ pc = "input"
  /\ block_type = "paragraph"
  /\ meta = None
  /\ degraded = FALSE
  /\ fragment = None
  /\ blocks = <<>>
  /\ latex_content = None
  /\ rpc = "get_service"
  /\ calls = <<>>
  /\ updates = <<>>
  /\ record = ("Status" :> "Queued")
  /\ valid = None
  /\ degraded_mode = None
  /\ raised = None
  /\ run_result = None
  /\ pdf_file = None
  /\ pdf_validation = None
  /\ gen_pc = "idle"
  /\ run_num = 1
  /\ returncodes = <<>>
  /\ out_files = {}
  /\ gen_result = None
  /\ artifact = None
  /\ expected = [artifact_type |-> None, schema_version |-> None]
  /\ schema_file = "ok"
  /\ verdict = None
  /\ responses = <<>>
  /\ invocations = <<>>
  /\ service_project = None
  /\ project_lookup = NotFound
  /\ metadata_lookup = NotFound
  /\ params = None
  /\ dependencies = <<>>
  /\ dep_i = 1
  /\ find_pc = "input"
  /\ manuscript_artifact_url = None
  /\ downloaded = None
  /\ schema_files = [c \in CacheKeys |-> "missing"]
  /\ schema_cache = <<>>
  /\ default_registry = None
  /\ registries_created = 0
  /\ reg_log = <<>>
  /\ inv_pc = [p \in Invocations |-> "get_service"]
  /\ shared_status = "Queued"
  /\ status_writes = <<>>
  /\ worked = {}

\* ------------------------------------------------- warning handler actions
\* The caller builds the warning list of the manuscript artifact.
AddWarning ==
  /\ decision = None
  /\ Len(warnings) < MaxWarnings
  /\ \E c \in WarningCodes : warnings' = Append(warnings, c)
  /\ UNCHANGED <<decision, latexVars, blockVars, docVars, runVars, pdfVars, extVars>>

\* decision = warning_handler.evaluate(warnings)
Evaluate ==
  /\ decision = None
  /\ decision' = Some(evaluate(warnings))
  /\ UNCHANGED <<warnings, latexVars, blockVars, docVars, runVars, pdfVars, extVars>>

NextWarn == AddWarning \/ Evaluate

SpecWarn == Init /\ [][NextWarn]_vars

\* ------------------------------------------------------- converter actions
\* A caller hands a text to _escape_latex: the text grows by one character.
AddEscChar ==
  /\ pc = "input"
  /\ Len(text) < MaxEscLen
  /\ \E c \in EscAlphabet : text' = Append(text, c)
  /\ UNCHANGED <<marks, sorted_marks, k, result, pc, warnVars, blockVars, docVars, runVars, pdfVars, extVars>>

\* result = self._escape_latex(text)
CallEscapeLatex ==
  /\ pc = "input"
  /\ result' = escape_latex(text)
  /\ pc' = "escaped"
  /\ UNCHANGED <<text, marks, sorted_marks, k, warnVars, blockVars, docVars, runVars, pdfVars, extVars>>

NextEscape == AddEscChar \/ CallEscapeLatex

SpecEscape == Init /\ [][NextEscape]_vars

\* The upstream producer writes a block's text, one character at a time.
AddTextChar ==
  /\ pc = "input"
  /\ Len(text) < MaxTextLen
  /\ \E c \in TextAlphabet : text' = Append(text, c)
  /\ UNCHANGED <<marks, sorted_marks, k, result, pc, warnVars, blockVars, docVars, runVars, pdfVars, extVars>>

\* The upstream producer adds a mark that satisfies the Block invariant
\* 0 <= start < end <= len(text); the marks of a block are distinct.
AddMark ==
  /\ pc = "input"
  /\ Len(marks) < MaxMarks
  /\ \E ty \in MarkTypes, st \in 0..(Len(text) - 1) :
       \E en \in (st + 1)..Len(text) :
          LET m == [type |-> ty, start |-> st, end |-> en]
          IN /\ \A i \in 1..Len(marks) : marks[i] # m
             /\ marks' = Append(marks, m)
  /\ UNCHANGED <<text, sorted_marks, k, result, pc, warnVars, blockVars, docVars, runVars, pdfVars, extVars>>

\* _apply_marks(text, marks) with no marks: the early return.
ApplyMarksEmpty ==
  /\ pc = "input"
  /\ marks = <<>>
  /\ result' = NoMarksResult(text)
  /\ pc' = "done"
  /\ UNCHANGED <<text, marks, sorted_marks, k, warnVars, blockVars, docVars, runVars, pdfVars, extVars>>

\* _apply_marks(text, marks) with marks: sort them and enter the loop.
ApplyMarksSort ==
  /\ pc = "input"
  /\ marks # <<>>
  /\ sorted_marks' = Sorted(marks)
  /\ result' = text
  /\ k' = 1
  /\ pc' = "loop"
  /\ UNCHANGED <<text, marks, warnVars, blockVars, docVars, runVars, pdfVars, extVars>>

\* One iteration of the loop: splice the wrapped text of sorted_marks[k].
ApplyMarkStep ==
  /\ pc = "loop"
  /\ k <= Len(sorted_marks)
  /\ result' = MarkStep(result, sorted_marks[k])
  /\ k' = k + 1
  /\ UNCHANGED <<text, marks, sorted_marks, pc, warnVars, blockVars, docVars, runVars, pdfVars, extVars>>

\* The loop is over: return result.
ApplyMarksReturn ==
  /\ pc = "loop"
  /\ k > Len(sorted_marks)
  /\ pc' = "done"
  /\ UNCHANGED <<text, marks, sorted_marks, k, result, warnVars, blockVars, docVars, runVars, pdfVars, extVars>>

NextMarks ==
  \/ AddTextChar
  \/ AddMark
  \/ ApplyMarksEmpty
  \/ ApplyMarksSort
  \/ ApplyMarkStep
  \/ ApplyMarksReturn

SpecMarks == Init /\ [][NextMarks]_vars

\* The upstream producer adds a mark of any type whose span overlaps no
\* span the block already has (Block invariant: 0 <= start < end <= len(text)).
AddDisjointMark ==
  /\ pc = "input"
  /\ Len(text) <= MaxSpanTextLen
  /\ Len(marks) < MaxSpanMarks
  /\ \E ty \in AllMarkTypes, st \in 0..(Len(text) - 1) :
       \E en \in (st + 1)..Len(text) :
          /\ \A i \in 1..Len(marks) : marks[i].end <= st \/ en <= marks[i].start
          /\ marks' = Append(marks, [type |-> ty, start |-> st, end |-> en])
  /\ UNCHANGED <<text, sorted_marks, k, result, pc, warnVars, blockVars, docVars, runVars, pdfVars, extVars>>

\* The upstream producer writes the text of a block with disjoint marks.
AddSpanTextChar ==
  /\ pc = "input"
  /\ marks = <<>>
  /\ Len(text) < MaxSpanTextLen
  /\ \E c \in TextAlphabet : text' = Append(text, c)
  /\ UNCHANGED <<marks, sorted_marks, k, result, pc, warnVars, blockVars, docVars, runVars, pdfVars, extVars>>

NextSpans ==
  \/ AddSpanTextChar
  \/ AddDisjointMark
  \/ ApplyMarksSort
  \/ ApplyMarkStep
  \/ ApplyMarksReturn

SpecSpans == Init /\ [][NextSpans]_vars

\* ---------------------------------------------------- block renderer actions
\* The upstream producer writes the text of the block, one character at a time.
AddBlockChar ==
  /\ fragment = None
  /\ Len(text) < MaxBlockTextLen
  /\ \E c \in TextAlphabet : text' = Append(text, c)
  /\ UNCHANGED <<marks, sorted_marks, k, result, pc, warnVars, blockVars, docVars, runVars, pdfVars, extVars>>

\* The upstream producer adds a mark to the block (Block invariant:
\* 0 <= start < end <= len(text); distinct marks).
AddBlockMark ==
  /\ fragment = None
  /\ Len(marks) < MaxBlockMarks
  /\ \E ty \in MarkTypes, st \in 0..(Len(text) - 1) :
       \E en \in (st + 1)..Len(text) :
          LET m == [type |-> ty, start |-> st, end |-> en]
          IN /\ \A i \in 1..Len(marks) : marks[i] # m
             /\ marks' = Append(marks, m)
  /\ UNCHANGED <<text, sorted_marks, k, result, pc, warnVars, blockVars, docVars, runVars, pdfVars, extVars>>

\* fragment = self._convert_block(block, degraded), for a block of any type
\* whose meta has no chapter_number.
ConvertBlock ==
  /\ fragment = None
  /\ \E ty \in BlockTypes, d \in BOOLEAN :
       /\ block_type' = ty
       /\ meta' = None
       /\ degraded' = d
       /\ fragment' = Some(convert_block(Block(ty, text, marks, None), d))
  /\ UNCHANGED <<latexVars, warnVars, docVars, runVars, pdfVars, extVars>>

\* fragment = self._convert_block(block, degraded), for a chapter heading
\* whose meta has a chapter_number.
ConvertNumberedHeading ==
  /\ fragment = None
  /\ \E n \in ChapterNumbers, d \in BOOLEAN :
       /\ block_type' = "chapter_heading"
       /\ meta' = Some(n)
       /\ degraded' = d
       /\ fragment' =
            Some(convert_block(Block("chapter_heading", text, marks, Some(n)), d))
  /\ UNCHANGED <<latexVars, warnVars, docVars, runVars, pdfVars, extVars>>

NextBlock ==
  \/ AddBlockChar
  \/ AddBlockMark
  \/ ConvertBlock
  \/ ConvertNumberedHeading

SpecBlock == Init /\ [][NextBlock]_vars

\* ------------------------------------------------ document assembler actions
\* The artifact's block list grows by one block.
AddBlock ==
  /\ latex_content = None
  /\ Len(blocks) < MaxBlocks
  /\ \E b \in BlockPool : blocks' = Append(blocks, b)
  /\ UNCHANGED <<latex_content, latexVars, warnVars, blockVars, runVars, pdfVars, extVars>>

\* latex_content = self.latex_converter.convert(blocks, params, degraded_mode)
Convert ==
  /\ latex_content = None
  /\ \E d \in BOOLEAN :
       /\ degraded' = d
       /\ latex_content' = Some(convert(blocks, d))
  /\ UNCHANGED <<blocks, block_type, meta, fragment, latexVars, warnVars, runVars, pdfVars, extVars>>

NextConvert == AddBlock \/ Convert

SpecConvert == Init /\ [][NextConvert]_vars

\* -------------------------------------------------- process_service actions
\* A step of the try block went through: record the call, go to the next step.
Proceed(name, next) ==
  /\ calls' = Append(calls, name)
  /\ rpc' = next

\* A step of the try block raised: record the call, enter the except branch.
Raise(name, e) ==
  /\ calls' = Append(calls, name)
  /\ raised' = Some(e)
  /\ rpc' = "except"

\* self.airtable_client.update_service(service_id, fields): table.update
\* either succeeds (True) or raises; ok tells which.
UpdateService(fields, ok) ==
  /\ updates' = Append(updates, [fields |-> fields, ok |-> ok])
  /\ record' = IF ok THEN fields @@ record ELSE record

\* update_service wraps table.update in try / except Exception and returns
\* False from the handler: the exception of a failed update stays inside.
UpdateServiceLetsThrough == FALSE
UpdateServiceCatches == TRUE

\* Whether the update_service call returns to its caller.
Returns(ok) == ok \/ UpdateServiceCatches

otherVars == <<latexVars, blockVars, docVars, pdfVars, extVars>>

\* Step 1: service = get_service(service_id); None raises ValueError.
GetService ==
  /\ rpc = "get_service"
  /\ \/ Proceed("get_service", "claim") /\ UNCHANGED raised
     \/ Raise("get_service", <<"Service ", "rec1", " not found">>)
  /\ UNCHANGED <<updates, record, valid, degraded_mode, run_result,
                 warnVars, otherVars>>

\* Step 2: self._claim_service(service_id); the update's result is dropped.
ClaimService ==
  /\ rpc = "claim"
  /\ \E ok \in BOOLEAN :
       /\ UpdateService(ClaimFields, ok)
       /\ IF Returns(ok)
            THEN Proceed("claim", "find") /\ UNCHANGED raised
            ELSE Raise("claim", <<"update failed">>)
  /\ UNCHANGED <<valid, degraded_mode, run_result, warnVars, otherVars>>

\* Step 3: _find_manuscript_artifact(service); None raises ValueError.
FindManuscriptArtifact ==
  /\ rpc = "find"
  /\ \/ Proceed("find", "params") /\ UNCHANGED raised
     \/ Raise("find",
              <<"Could not find manuscript artifact from Worker 1 dependency">>)
  /\ UNCHANGED <<updates, record, valid, degraded_mode, run_result,
                 warnVars, otherVars>>

\* Step 4: params = self._get_formatting_parameters(service)
GetFormattingParameters ==
  /\ rpc = "params"
  /\ Proceed("params", "download")
  /\ UNCHANGED <<updates, record, valid, degraded_mode, raised, run_result,
                 warnVars, otherVars>>

\* Step 5: artifact = self.artifact_downloader.download(url), which raises
\* ValueError when the request or the JSON parse fails.
DownloadArtifact ==
  /\ rpc = "download"
  /\ \/ /\ Proceed("download", "validate")
        /\ \E ws \in RunWarningLists : warnings' = ws
        /\ UNCHANGED raised
     \/ /\ Raise("download", <<"Could not download artifact">>)
        /\ UNCHANGED warnings
  /\ UNCHANGED <<updates, record, valid, degraded_mode, run_result,
                 decision, otherVars>>

\* Step 5: validation_result = validate_artifact(...); not valid raises.
ValidateArtifact ==
  /\ rpc = "validate"
  /\ \/ /\ valid' = Some(TRUE)
        /\ Proceed("validate", "evaluate")
        /\ UNCHANGED raised
     \/ /\ valid' = Some(FALSE)
        /\ Raise("validate", <<"Invalid artifact: ", "errors">>)
  /\ UNCHANGED <<updates, record, degraded_mode, run_result, warnVars, otherVars>>

\* Step 6: decision = self.warning_handler.evaluate(warnings); FAIL raises.
EvaluateWarnings ==
  /\ rpc = "evaluate"
  /\ decision' = Some(evaluate(warnings))
  /\ IF PolicyRefuses(evaluate(warnings))
       THEN Raise("evaluate",
                  <<"Cannot process: ">> \o evaluate(warnings).reason[1])
       ELSE Proceed("evaluate", "convert") /\ UNCHANGED raised
  /\ UNCHANGED <<updates, record, valid, degraded_mode, run_result,
                 warnings, otherVars>>

\* Step 7: latex_content = self.latex_converter.convert(...) and
\* latex_file.write_text(...); either may raise.
ConvertBlocks ==
  /\ rpc = "convert"
  /\ degraded_mode' = Some(DegradedMode(decision[1]))
  /\ \/ Proceed("convert", "generate") /\ UNCHANGED raised
     \/ Raise("convert", <<"conversion error">>)
  /\ UNCHANGED <<updates, record, valid, run_result, warnVars, otherVars>>

\* Step 8: pdf_file = self.pdf_generator.generate(...), which may raise.
GeneratePdf ==
  /\ rpc = "generate"
  /\ \/ Proceed("generate", "pdf_validate") /\ UNCHANGED raised
     \/ Raise("generate", <<"PDF generation failed">>)
  /\ UNCHANGED <<updates, record, valid, degraded_mode, run_result,
                 warnVars, otherVars>>

\* Step 9: pdf_validation = self.pdf_validator.validate(pdf_file); not valid
\* raises ValueError.
ValidatePdf ==
  /\ rpc = "pdf_validate"
  /\ \E f \in PdfFiles :
       /\ pdf_file' = Some(f)
       /\ pdf_validation' = Some(validate(f))
       /\ IF validate(f).valid
            THEN Proceed("pdf_validate", "upload") /\ UNCHANGED raised
            ELSE Raise("pdf_validate",
                       <<"PDF validation failed: ">> \o validate(f).errors)
  /\ UNCHANGED <<updates, record, valid, degraded_mode, run_result,
                 warnVars, latexVars, blockVars, docVars, extVars>>

\* Step 10: upload_result = self.r2_client.upload_file(...), which may raise.
UploadPdf ==
  /\ rpc = "upload"
  /\ \/ Proceed("upload", "complete") /\ UNCHANGED raised
     \/ Raise("upload", <<"upload failed">>)
  /\ UNCHANGED <<updates, record, valid, degraded_mode, run_result,
                 warnVars, otherVars>>

\* Step 11: self._complete_service(...); the update's result is dropped.
CompleteService ==
  /\ rpc = "complete"
  /\ \E ok \in BOOLEAN :
       /\ UpdateService(CompleteFields("pdf_url", "services/rec1/interior.pdf"),
                        ok)
       /\ IF Returns(ok)
            THEN Proceed("complete", "cleanup") /\ UNCHANGED raised
            ELSE Raise("complete", <<"update failed">>)
  /\ UNCHANGED <<valid, degraded_mode, run_result, warnVars, otherVars>>

\* Step 12: latex_file.unlink(missing_ok=True); pdf_file.unlink(...), which
\* raise OSError for anything but a missing file; then return the result.
CleanUp ==
  /\ rpc = "cleanup"
  /\ \/ /\ Proceed("cleanup", "done")
        /\ run_result' = Some(SuccessResult)
        /\ UNCHANGED raised
     \/ /\ Raise("cleanup", <<"Permission denied">>)
        /\ UNCHANGED run_result
  /\ UNCHANGED <<updates, record, valid, degraded_mode, warnVars, otherVars>>

\* except Exception as e: self._fail_service(service_id, str(e)); return the
\* failure result.  An exception leaving _fail_service would leave
\* process_service too ("propagated").
FailService ==
  /\ rpc = "except"
  /\ \E ok \in BOOLEAN :
       /\ UpdateService(FailFields(raised[1]), ok)
       /\ IF Returns(ok)
            THEN /\ run_result' = Some(FailureResult(raised[1]))
                 /\ Proceed("fail", "done")
            ELSE /\ Proceed("fail", "propagated")
                 /\ UNCHANGED run_result
  /\ UNCHANGED <<valid, degraded_mode, raised, warnVars, otherVars>>

NextRun ==
  \/ GetService
  \/ ClaimService
  \/ FindManuscriptArtifact
  \/ GetFormattingParameters
  \/ DownloadArtifact
  \/ ValidateArtifact
  \/ EvaluateWarnings
  \/ ConvertBlocks
  \/ GeneratePdf
  \/ ValidatePdf
  \/ UploadPdf
  \/ CompleteService
  \/ CleanUp
  \/ FailService

SpecRun == Init /\ [][NextRun]_vars

\* ------------------------------------------------------ PDFGenerator actions
\* pdf_generator.generate(latex_file, output_dir, run_id) is called: the loop
\* over [1, 2] starts.
GenerateStart ==
  /\ gen_pc = "idle"
  /\ gen_pc' = "pass"
  /\ run_num' = 1
  /\ UNCHANGED <<returncodes, out_files, gen_result, coreVars, restGen>>

\* One iteration of the loop: subprocess.run of the typesetter, which writes
\* some of the run's files and exits with a status; a nonzero status raises
\* RuntimeError out of generate.
RunTypesetter ==
  /\ gen_pc = "pass"
  /\ run_num <= Len(PassNumbers)
  /\ \E rc \in ReturnCodes, written \in SUBSET OutputFiles :
       /\ returncodes' = Append(returncodes, rc)
       /\ out_files' = out_files \cup written
       /\ IF ReturnCodeFails(rc)
            THEN gen_pc' = "raised" /\ UNCHANGED run_num
            ELSE /\ run_num' = run_num + 1
                 /\ gen_pc' = IF run_num = Len(PassNumbers) THEN "check" ELSE "pass"
  /\ UNCHANGED <<gen_result, coreVars, restGen>>

\* After the loop: raise if the PDF does not exist; otherwise unlink the
\* auxiliary files that exist (an unlink may raise OSError) and return the path.
CheckAndReturn ==
  /\ gen_pc = "check"
  /\ IF ".pdf" \notin out_files
       THEN gen_pc' = "raised" /\ UNCHANGED <<out_files, gen_result>>
       ELSE \/ /\ out_files' = cleanup_aux_files(out_files)
               /\ gen_result' = Some("pdf_file")
               /\ gen_pc' = "returned"
            \/ /\ out_files \cap aux_extensions # {}
               /\ gen_pc' = "raised"
               /\ UNCHANGED <<out_files, gen_result>>
  /\ UNCHANGED <<run_num, returncodes, coreVars, restGen>>

NextGen == GenerateStart \/ RunTypesetter \/ CheckAndReturn

SpecGen == Init /\ [][NextGen]_vars

\* -------------------------------------------------- validate_artifact actions
\* A caller has a document, the expected type and version, and the registry
\* directory is in some state.
ReceiveArtifact ==
  /\ artifact = None
  /\ \E ty \in ArtifactTypeValues, ver \in SchemaVersionValues,
        errs \in IterErrorLists :
       artifact' = Some([artifact_type |-> ty, schema_version |-> ver,
                         iter_errors |-> errs])
  /\ \E ety \in ExpectedTypes, ever \in ExpectedVersions :
       expected' = [artifact_type |-> ety, schema_version |-> ever]
  /\ \E sf \in SchemaFileStates : schema_file' = sf
  /\ UNCHANGED <<verdict, coreVars, restVal>>

\* validate_artifact(artifact, artifact_type, schema_version) of
\* src/artifact_validator.py
ValidateWithWorkerWrapper ==
  /\ artifact # None
  /\ verdict = None
  /\ responses = <<>>
  /\ invocations = <<>>
  /\ service_project = None
  /\ project_lookup = NotFound
  /\ metadata_lookup = NotFound
  /\ params = None
  /\ dependencies = <<>>
  /\ dep_i = 1
  /\ find_pc = "input"
  /\ manuscript_artifact_url = None
  /\ downloaded = None
  /\ schema_files = [c \in CacheKeys |-> "missing"]
  /\ schema_cache = <<>>
  /\ default_registry = None
  /\ registries_created = 0
  /\ reg_log = <<>>
  /\ inv_pc = [p \in Invocations |-> "get_service"]
  /\ shared_status = "Queued"
  /\ status_writes = <<>>
  /\ worked = {}
  /\ verdict' = Some(worker_validate_artifact(artifact[1],
                       expected.artifact_type, expected.schema_version,
                       schema_file))
  /\ UNCHANGED <<artifact, expected, schema_file, coreVars, restVal>>

\* validate_artifact(artifact, artifact_type, schema_version) of
\* src/lib/artifact_validator.py
ValidateWithLibWrapper ==
  /\ artifact # None
  /\ verdict = None
  /\ responses = <<>>
  /\ invocations = <<>>
  /\ service_project = None
  /\ project_lookup = NotFound
  /\ metadata_lookup = NotFound
  /\ params = None
  /\ dependencies = <<>>
  /\ dep_i = 1
  /\ find_pc = "input"
  /\ manuscript_artifact_url = None
  /\ downloaded = None
  /\ schema_files = [c \in CacheKeys |-> "missing"]
  /\ schema_cache = <<>>
  /\ default_registry = None
  /\ registries_created = 0
  /\ reg_log = <<>>
  /\ inv_pc = [p \in Invocations |-> "get_service"]
  /\ shared_status = "Queued"
  /\ status_writes = <<>>
  /\ worked = {}
  /\ verdict' = Some(lib_validate_artifact(artifact[1],
                       expected.artifact_type, expected.schema_version,
                       schema_file))
  /\ UNCHANGED <<artifact, expected, schema_file, coreVars, restVal>>

NextValidate ==
  ReceiveArtifact \/ ValidateWithWorkerWrapper \/ ValidateWithLibWrapper

SpecValidate == Init /\ [][NextValidate]_vars

\* ------------------------------------------------------------ app.py actions
\* A POST /process request is handled.
PostProcess ==
  /\ Len(responses) < MaxRequests
  /\ \E b \in RequestBodies, ctor_ok \in BOOLEAN, res \in ServiceResults :
       LET resp == process(b, ctor_ok, res)
       IN /\ responses' = Append(responses, resp)
          /\ invocations' =
               IF resp.invoked = 1 THEN Append(invocations, res) ELSE invocations
  /\ UNCHANGED <<coreVars, restHttp>>

\* A GET /health request is handled.
GetHealth ==
  /\ Len(responses) < MaxRequests
  /\ responses' = Append(responses, health)
  /\ UNCHANGED <<invocations, coreVars, restHttp>>

NextHttp == PostProcess \/ GetHealth

SpecHttp == Init /\ [][NextHttp]_vars

\* ------------------------------------------ _get_formatting_parameters actions
\* The record store holds a service with some 'Project' field, and the
\* project and metadata lookups behave in some way.
LinkRecords ==
  /\ params = None
  /\ dependencies = <<>>
  /\ dep_i = 1
  /\ find_pc = "input"
  /\ manuscript_artifact_url = None
  /\ downloaded = None
  /\ schema_files = [c \in CacheKeys |-> "missing"]
  /\ schema_cache = <<>>
  /\ default_registry = None
  /\ registries_created = 0
  /\ reg_log = <<>>
  /\ inv_pc = [p \in Invocations |-> "get_service"]
  /\ shared_status = "Queued"
  /\ status_writes = <<>>
  /\ worked = {}
  /\ \E l \in LinkValues : service_project' = l
  /\ \E pl \in ProjectLookups : project_lookup' = pl
  /\ \E ml \in MetadataLookups : metadata_lookup' = ml
  /\ UNCHANGED <<params, coreVars, restParams>>

\* params = self._get_formatting_parameters(service)
GetParams ==
  /\ params = None
  /\ dependencies = <<>>
  /\ dep_i = 1
  /\ find_pc = "input"
  /\ manuscript_artifact_url = None
  /\ downloaded = None
  /\ schema_files = [c \in CacheKeys |-> "missing"]
  /\ schema_cache = <<>>
  /\ default_registry = None
  /\ registries_created = 0
  /\ reg_log = <<>>
  /\ inv_pc = [p \in Invocations |-> "get_service"]
  /\ shared_status = "Queued"
  /\ status_writes = <<>>
  /\ worked = {}
  /\ params' = Some(get_formatting_parameters(service_project, project_lookup,
                                              metadata_lookup))
  /\ UNCHANGED <<service_project, project_lookup, metadata_lookup,
                 coreVars, restParams>>

NextParams == LinkRecords \/ GetParams

SpecParams == Init /\ [][NextParams]_vars

\* ------------------------------------------- _find_manuscript_artifact actions
\* The service record has one more entry in its Dependencies list.
AddDependency ==
  /\ find_pc = "input"
  /\ Len(dependencies) < MaxDeps
  /\ \E d \in Dependencies : dependencies' = Append(dependencies, d)
  /\ UNCHANGED <<dep_i, find_pc, manuscript_artifact_url, downloaded,
                 coreVars, restFind>>

\* _find_manuscript_artifact(service) is called: an empty list returns None,
\* otherwise the loop starts.
FindStart ==
  /\ find_pc = "input"
  /\ dep_i' = 1
  /\ find_pc' = IF dependencies = <<>> THEN "returned" ELSE "loop"
  /\ UNCHANGED <<dependencies, manuscript_artifact_url, downloaded,
                 coreVars, restFind>>

\* One iteration of the loop: return the URL or go on with the next one.
FindIterate ==
  /\ find_pc = "loop"
  /\ dep_i <= Len(dependencies)
  /\ IF FindStep(dependencies[dep_i]) # None
       THEN /\ manuscript_artifact_url' = FindStep(dependencies[dep_i])
            /\ find_pc' = "returned"
            /\ UNCHANGED dep_i
       ELSE /\ dep_i' = dep_i + 1
            /\ UNCHANGED <<manuscript_artifact_url, find_pc>>
  /\ UNCHANGED <<dependencies, downloaded, coreVars, restFind>>

\* The loop ran out of dependencies: return None.
FindExhausted ==
  /\ find_pc = "loop"
  /\ dep_i > Len(dependencies)
  /\ find_pc' = "returned"
  /\ UNCHANGED <<dependencies, dep_i, manuscript_artifact_url, downloaded,
                 coreVars, restFind>>

\* process_service after the call: no URL raises ValueError, which ends the
\* try block; otherwise the run goes on to download the URL.
UseArtifactUrl ==
  /\ find_pc = "returned"
  /\ IF ~UrlTruthy(manuscript_artifact_url)
       THEN find_pc' = "failed" /\ UNCHANGED downloaded
       ELSE find_pc' = "download" /\ downloaded' = manuscript_artifact_url
  /\ UNCHANGED <<dependencies, dep_i, manuscript_artifact_url,
                 coreVars, restFind>>

NextFind ==
  \/ AddDependency
  \/ FindStart
  \/ FindIterate
  \/ FindExhausted
  \/ UseArtifactUrl

SpecFind == Init /\ [][NextFind]_vars

\* -------------------------------------------------- ArtifactRegistry actions
\* Somebody writes, replaces or removes a schema file in the registry
\* directory.
WriteSchemaFile ==
  /\ \E c \in CacheKeys, f \in SchemaFiles :
       /\ schema_files[c] # f
       /\ schema_files' = [schema_files EXCEPT ![c] = f]
  /\ UNCHANGED <<schema_cache, default_registry, registries_created, reg_log,
                 coreVars, restReg>>

\* registry.get_schema(artifact_type, schema_version)
GetSchema ==
  /\ Len(reg_log) < MaxRegistryCalls
  /\ \E c \in CacheKeys :
       LET out == get_schema(schema_cache, c, schema_files[c])
       IN /\ schema_cache' = out.cache
          /\ reg_log' = Append(reg_log,
               RegistryEvent("get_schema", c, out.outcome, out.schema,
                             out.read, schema_cache, out.cache))
  /\ UNCHANGED <<schema_files, default_registry, registries_created,
                 coreVars, restReg>>

\* registry.clear_cache()
ClearCache ==
  /\ Len(reg_log) < MaxRegistryCalls
  /\ schema_cache' = <<>>
  /\ reg_log' = Append(reg_log,
       RegistryEvent("clear_cache", <<>>, "returned", None, FALSE,
                     schema_cache, <<>>))
  /\ UNCHANGED <<schema_files, default_registry, registries_created,
                 coreVars, restReg>>

\* get_default_registry(): construct the registry if the global is None
\* (the constructor raises when the registry path does not exist), then
\* return the global.
GetDefaultRegistry ==
  /\ Len(reg_log) < MaxRegistryCalls
  /\ IF default_registry # None
       THEN /\ reg_log' = Append(reg_log,
                 RegistryEvent("get_default_registry", <<>>, "returned",
                               default_registry, FALSE, schema_cache, schema_cache))
            /\ UNCHANGED <<default_registry, registries_created>>
       ELSE \/ /\ default_registry' = Some(registries_created + 1)
               /\ registries_created' = registries_created + 1
               /\ reg_log' = Append(reg_log,
                    RegistryEvent("get_default_registry", <<>>, "returned",
                                  Some(registries_created + 1), FALSE,
                                  schema_cache, schema_cache))
            \/ /\ reg_log' = Append(reg_log,
                    RegistryEvent("get_default_registry", <<>>,
                                  "ArtifactRegistryError", None, FALSE,
                                  schema_cache, schema_cache))
               /\ UNCHANGED <<default_registry, registries_created>>
  /\ UNCHANGED <<schema_files, schema_cache, coreVars, restReg>>

NextRegistry ==
  WriteSchemaFile \/ GetSchema \/ ClearCache \/ GetDefaultRegistry

SpecRegistry == Init /\ [][NextRegistry]_vars

\* ---------------------------------- interleaved process_service run actions
\* update_service by invocation p: table.update writes the Status or fails.
WriteStatus(p, status, ok) ==
  /\ status_writes' =
       Append(status_writes, StatusWrite(p, status, shared_status, ok))
  /\ shared_status' = IF ok THEN status ELSE shared_status

\* Step 1 of invocation p: get_service returns the record (whatever its
\* Status is) or None, which raises.
InvGetService(p) ==
  /\ inv_pc[p] = "get_service"
  /\ \E found \in BOOLEAN :
       inv_pc' = [inv_pc EXCEPT ![p] = IF found THEN "claim" ELSE "except"]
  /\ UNCHANGED <<shared_status, status_writes, worked, coreVars, restTwo>>

\* Step 2 of invocation p: _claim_service writes Status 'Processing'.
InvClaim(p) ==
  /\ inv_pc[p] = "claim"
  /\ \E ok \in BOOLEAN : WriteStatus(p, "Processing", ok)
  /\ inv_pc' = [inv_pc EXCEPT ![p] = "work"]
  /\ UNCHANGED <<worked, coreVars, restTwo>>

\* Steps 3 to 10 of invocation p: from the dependency lookup to the upload;
\* a step before the conversion may raise, or the run converts and uploads.
InvWork(p) ==
  /\ inv_pc[p] = "work"
  /\ \/ /\ inv_pc' = [inv_pc EXCEPT ![p] = "except"]
        /\ UNCHANGED worked
     \/ /\ worked' = worked \cup {p}
        /\ \E uploaded \in BOOLEAN :
             inv_pc' = [inv_pc EXCEPT ![p] =
                          IF uploaded THEN "complete" ELSE "except"]
  /\ UNCHANGED <<shared_status, status_writes, coreVars, restTwo>>

\* Step 11 of invocation p: _complete_service writes Status 'Complete'.
InvComplete(p) ==
  /\ inv_pc[p] = "complete"
  /\ \E ok \in BOOLEAN : WriteStatus(p, "Complete", ok)
  /\ inv_pc' = [inv_pc EXCEPT ![p] = "done"]
  /\ UNCHANGED <<worked, coreVars, restTwo>>

\* The except branch of invocation p: _fail_service writes Status 'Failed'.
InvFail(p) ==
  /\ inv_pc[p] = "except"
  /\ \E ok \in BOOLEAN : WriteStatus(p, "Failed", ok)
  /\ inv_pc' = [inv_pc EXCEPT ![p] = "done"]
  /\ UNCHANGED <<worked, coreVars, restTwo>>

NextTwo ==
  \E p \in Invocations :
     \/ InvGetService(p)
     \/ InvClaim(p)
     \/ InvWork(p)
     \/ InvComplete(p)
     \/ InvFail(p)

SpecTwo == Init /\ [][NextTwo]_vars

Next ==
  \/ NextWarn \/ NextEscape \/ NextMarks \/ NextBlock \/ NextConvert \/ NextRun
  \/ NextGen \/ NextValidate \/ NextHttp \/ NextParams \/ NextSpans
  \/ NextFind \/ NextRegistry \/ NextTwo

Spec == Init /\ [][Next]_vars

\* ------------------------------------------------ warning handler: claims
Decided == decision # None
TheDecision == decision[1]
IsFailCode(c) == c \in DOMAIN fail_rules
IsDegradeCode(c) == c \in DOMAIN degrade_rules
IsNeutralCode(c) == ~IsFailCode(c) /\ ~IsDegradeCode(c)
HasFailCode == \E i \in 1..Len(warnings) : IsFailCode(warnings[i])
NumDegrade == Cardinality({i \in 1..Len(warnings) : IsDegradeCode(warnings[i])})
RemoveAt(s, i) == SubSeq(s, 1, i - 1) \o SubSeq(s, i + 1, Len(s))
InsertAt(s, i, c) == SubSeq(s, 1, i) \o <<c>> \o SubSeq(s, i + 1, Len(s))

\* C1: whenever the evaluated warning list holds at least one FAIL-table code,
\* at any position and among any other codes, the decision's action is FAIL
\* and the decision carries no degradations.
C1_FailDominates ==
  (Decided /\ HasFailCode) =>
     /\ TheDecision.action = "FAIL"
     /\ TheDecision.degradations = None

\* The FAIL code comes last, after a DEGRADE, a PROCEED and an unknown code.
C1_Witness ==
  /\ Decided
  /\ Len(warnings) = 4
  /\ IsDegradeCode(warnings[1])
  /\ warnings[2] = "LOW_CHAPTER_CONFIDENCE"
  /\ warnings[3] = "SOMETHING_ELSE"
  /\ IsFailCode(warnings[4])
  /\ TheDecision.action = "FAIL"

\* C2: with no FAIL-table code and n DEGRADE-matching warnings (counted per
\* occurrence): 1 <= n <= 5 gives DEGRADE, n >= 6 gives FAIL with a reason
\* that reports n.
C2_DegradeThreshold ==
  (Decided /\ ~HasFailCode) =>
     /\ (1 <= NumDegrade /\ NumDegrade <= 5) => TheDecision.action = "DEGRADE"
     /\ NumDegrade >= 6 =>
          /\ TheDecision.action = "FAIL"
          /\ TheDecision.reason # None
          /\ \E j \in 1..Len(TheDecision.reason[1]) :
                TheDecision.reason[1][j] = ToString(NumDegrade)

\* Six DEGRADE-matching warnings, a code repeated, and the override to FAIL.
C2_Witness ==
  /\ Decided
  /\ ~HasFailCode
  /\ NumDegrade = 6
  /\ warnings[1] = warnings[2]
  /\ TheDecision.action = "FAIL"

\* C3: a DEGRADE decision carries exactly the DEGRADE-table messages of the
\* matching warnings, in input order, one per matching warning, and its reason
\* reports a count equal to the number of degradations.
C3_DegradationsInOrder ==
  (Decided /\ TheDecision.action = "DEGRADE") =>
     LET sel == SelectSeq(warnings, IsDegradeCode)
         d == TheDecision.degradations
     IN /\ d # None
        /\ d[1] = [i \in 1..Len(sel) |-> degrade_rules[sel[i]]]
        /\ TheDecision.reason = Some(<<ToString(Len(d[1])), " edge cases detected">>)

\* A repeated DEGRADE code with a non-matching warning in between.
C3_Witness ==
  /\ Decided
  /\ TheDecision.action = "DEGRADE"
  /\ Len(warnings) = 4
  /\ warnings[1] = "UNICODE_RISK"
  /\ IsNeutralCode(warnings[2])
  /\ warnings[3] = "DETECTED_FOOTNOTES"
  /\ warnings[4] = "UNICODE_RISK"

\* C4: a FAIL decision caused by FAIL-table codes has as reason the prefix
\* followed by the messages of every FAIL-matching warning, in input order,
\* joined by ', '; for the single warning DETECTED_IMAGES it contains
\* 'Images not supported in MVP'.
C4_FailReasonAllMessages ==
  (Decided /\ HasFailCode) =>
     LET sel == SelectSeq(warnings, IsFailCode)
         r == TheDecision.reason
     IN /\ r # None
        /\ Len(r[1]) = 2 * Len(sel)
        /\ r[1][1] = "Cannot process: "
        /\ \A i \in 1..Len(sel) : r[1][2 * i] = fail_rules[sel[i]]
        /\ \A i \in 1..(Len(sel) - 1) : r[1][2 * i + 1] = ", "
        /\ warnings = <<"DETECTED_IMAGES">> =>
             r[1][2] = "Images not supported in MVP"

\* Two different FAIL codes, the second one after a DEGRADE code.
C4_Witness ==
  /\ Decided
  /\ Len(warnings) = 3
  /\ warnings[1] = "DETECTED_TABLES"
  /\ IsDegradeCode(warnings[2])
  /\ warnings[3] = "DETECTED_IMAGES"
  /\ Len(TheDecision.reason[1]) = 4

\* C5: a list of PROCEED-table and unknown codes only yields PROCEED, and
\* removing such a warning from, or inserting one at, any position of the
\* evaluated list leaves action, reason and degradations as they are.
C5_PermissiveByDefault ==
  Decided =>
     /\ (\A i \in 1..Len(warnings) : IsNeutralCode(warnings[i])) =>
           TheDecision.action = "PROCEED"
     /\ \A i \in 1..Len(warnings) :
           IsNeutralCode(warnings[i]) =>
              evaluate(RemoveAt(warnings, i)) = TheDecision
     /\ \A i \in 0..Len(warnings) :
           \A c \in {x \in WarningCodes : IsNeutralCode(x)} :
              evaluate(InsertAt(warnings, i, c)) = TheDecision

\* A DEGRADE decision on a list with a PROCEED and an unknown code around the
\* DEGRADE code.
C5_Witness ==
  /\ Decided
  /\ warnings = <<"LOW_CHAPTER_CONFIDENCE", "DETECTED_FOOTNOTES", "SOMETHING_ELSE">>
  /\ TheDecision.action = "DEGRADE"

\* C6 (as amended): on the empty warning list the decision is PROCEED and its
\* degradations field is None, the dataclass default, not a list.
C6_EmptyProceedsWithoutList ==
  (Decided /\ warnings = <<>>) =>
     /\ TheDecision.action = "PROCEED"
     /\ TheDecision.degradations = None

\* C6 as stated: on the empty warning list the decision is PROCEED and its
\* degradations field is an empty list.
C6_EmptyListAsStated ==
  (Decided /\ warnings = <<>>) =>
     /\ TheDecision.action = "PROCEED"
     /\ TheDecision.degradations = Some(<<>>)

C6_Witness == Decided /\ warnings = <<>>

\* ------------------------------------------------------ converter: claims
\* The substitution-table entry of one character, or the character itself.
TableEntry(c) ==
  IF \E i \in 1..Len(latex_escapes) : latex_escapes[i][1] = c
    THEN latex_escapes[CHOOSE i \in 1..Len(latex_escapes) :
                          latex_escapes[i][1] = c][2]
    ELSE <<c>>

\* The single left-to-right scan: each character of the original text is
\* replaced by its table entry, and nothing inserted is looked at again.
RECURSIVE SingleScan(_)
SingleScan(t) ==
  IF t = <<>> THEN <<>> ELSE TableEntry(Head(t)) \o SingleScan(Tail(t))

\* C7: _escape_latex(T) is the concatenation, over the characters of T in
\* order, of each character's table entry (or the character itself); no
\* character inserted for a reserved character is escaped again.
C7_SingleScanEscape ==
  pc = "escaped" => result = SingleScan(text)

\* C8: at the moment each mark is processed, in descending-start order,
\* result[start:end] equals the original text[start:end], for every mark
\* collection that satisfies the Block invariant (nested and overlapping
\* marks included).
C8_OffsetsStillValid ==
  (pc = "loop" /\ k <= Len(sorted_marks)) =>
     Slice(result, sorted_marks[k].start, sorted_marks[k].end)
       = Slice(text, sorted_marks[k].start, sorted_marks[k].end)

\* C9: _apply_marks with an empty mark collection returns _escape_latex(T).
C9_NoMarksIsEscape ==
  (pc = "done" /\ marks = <<>>) => result = escape_latex(text)

\* A text with a reserved character went through the no-marks path.
C9_Witness ==
  /\ pc = "done"
  /\ marks = <<>>
  /\ \E i \in 1..Len(text) : text[i] = "&"
  /\ result # text

NonOverlapping(ms) ==
  \A i, j \in 1..Len(ms) :
     i < j => (ms[i].end <= ms[j].start \/ ms[j].end <= ms[i].start)

\* C10: for pairwise non-overlapping marks, every permutation of the input
\* mark list gives the output string the call returned.
C10_OrderIndependent ==
  (pc = "done" /\ NonOverlapping(marks)) =>
     \A f \in Permutations(1..Len(marks)) :
        apply_marks(text, [i \in 1..Len(marks) |-> marks[f[i]]]) = result

\* Two adjacent marks of different types, handed over in ascending order, so
\* that the sort has to reorder them.
C10_Witness ==
  /\ pc = "done"
  /\ Len(marks) = 2
  /\ NonOverlapping(marks)
  /\ marks[1].start < marks[2].start
  /\ marks[1].type # marks[2].type
  /\ result # text

\* -------------------------------------------------- block renderer: claims
Rendered == fragment # None
TheFragment == fragment[1]
TheBlock == Block(block_type, text, marks, meta)
StyledText == apply_marks(text, marks)
DegradableTypes ==
  {"blockquote", "list_item", "epigraph",
   "image_placeholder", "table_placeholder", "footnote"}
PlaceholderTypes == {"image_placeholder", "table_placeholder", "footnote"}

\* C11: a chapter_heading block renders as the numbered chapter command
\* whenever meta contains a chapter_number, whatever its value, and as the
\* unnumbered heading followed by a table-of-contents entry, both holding the
\* styled text, exactly when meta has no chapter_number; the other mode gives
\* the same fragment.
C11_ChapterHeadingByPresence ==
  (Rendered /\ block_type = "chapter_heading") =>
     /\ meta # None =>
          TheFragment = <<"\\chapter{">> \o StyledText \o <<"}">>
     /\ meta = None =>
          TheFragment =
            <<"\\chapter*{">> \o StyledText
              \o <<"}", "\n", "\\addcontentsline{toc}{chapter}{">>
              \o StyledText \o <<"}">>
     /\ convert_block(TheBlock, ~degraded) = TheFragment

\* C12: for every block type outside the six degradable ones (unknown types
\* included) the fragment is the same in both modes; for blockquote,
\* list_item and epigraph the two modes give different fragments, the
\* blockquote using the quote environment when degraded and the quotation
\* environment otherwise.
C12_DegradedChangesOnlyDegradable ==
  Rendered =>
     LET other == convert_block(TheBlock, ~degraded)
     IN /\ block_type \notin DegradableTypes => other = TheFragment
        /\ block_type \in {"blockquote", "list_item", "epigraph"} =>
             other # TheFragment
        /\ block_type = "blockquote" =>
             TheFragment[1] =
               (IF degraded THEN "\\begin{quote}" ELSE "\\begin{quotation}")

\* A degraded blockquote with text and a mark.
C12_Witness ==
  /\ Rendered
  /\ block_type = "blockquote"
  /\ degraded
  /\ marks # <<>>
  /\ TheFragment[1] = "\\begin{quote}"

\* C13: an image_placeholder, table_placeholder or footnote block renders as
\* the empty fragment in normal mode and as the non-empty comment marker
\* '% UNSUPPORTED: <type>' in degraded mode, whatever its text and marks.
C13_PlaceholderFragments ==
  (Rendered /\ block_type \in PlaceholderTypes) =>
     /\ ~degraded => TheFragment = <<>>
     /\ degraded =>
          /\ TheFragment # <<>>
          /\ TheFragment = <<"% UNSUPPORTED: ", block_type>>

\* A footnote with reserved text and a mark, rendered in normal mode.
C13_Witness ==
  /\ Rendered
  /\ block_type = "footnote"
  /\ ~degraded
  /\ marks # <<>>
  /\ \E i \in 1..Len(text) : text[i] = "&"
  /\ TheFragment = <<>>

\* ------------------------------------------------ document assembler: claims
Assembled == latex_content # None
TheDocument == latex_content[1]
NonEmptyFragment(f) == f # <<>>

\* The fragments of the blocks in their original order, the empty ones left
\* out.
RenderedNonEmpty ==
  SelectSeq([i \in 1..Len(blocks) |-> convert_block(blocks[i], degraded)],
            NonEmptyFragment)

\* Each fragment on its own line(s), followed by one blank-line separator.
RECURSIVE WithSeparators(_)
WithSeparators(fs) ==
  IF fs = <<>> THEN <<>>
  ELSE <<"\n">> \o Head(fs) \o <<"\n">> \o WithSeparators(Tail(fs))

\* C14: the document is the preamble placeholder followed by the non-empty
\* fragments of the blocks in their original order, each followed by exactly
\* one blank-line separator; a block with an empty fragment contributes
\* neither text nor a separator.
C14_OrderAndSeparation ==
  Assembled =>
     TheDocument =
       PreamblePlaceholder \o <<"\n">> \o WithSeparators(RenderedNonEmpty)

\* Three blocks, the middle one with an empty fragment, the outer two with
\* different non-empty fragments.
C14_Witness ==
  /\ Assembled
  /\ Len(blocks) = 3
  /\ convert_block(blocks[2], degraded) = <<>>
  /\ Len(RenderedNonEmpty) = 2
  /\ RenderedNonEmpty[1] # RenderedNonEmpty[2]

\* C15 (as amended): on an empty block list convert returns the preamble
\* placeholder followed by one newline (the join with the empty part that
\* follows the placeholder) and nothing else, in both modes.
C15_EmptyListPlaceholderAndNewline ==
  (Assembled /\ blocks = <<>>) =>
     TheDocument = <<"% PREAMBLE_PLACEHOLDER", "\n">>

\* C15 as stated: on an empty block list convert returns only the preamble
\* placeholder, with no separator or other text after it.
C15_EmptyListOnlyPlaceholder ==
  (Assembled /\ blocks = <<>>) =>
     TheDocument = <<"% PREAMBLE_PLACEHOLDER">>

\* The empty list converted in degraded mode.
C15_Witness == Assembled /\ blocks = <<>> /\ degraded

\* ------------------------------------------------- process_service: claims
Called(name) == \E i \in 1..Len(calls) : calls[i] = name
StatusOf(i) == updates[i].fields["Status"]
IsPipelineStep(name) == name \in {"validate", "evaluate", "convert", "generate"}
PipelineOrder == <<"validate", "evaluate", "convert", "generate">>
Failed == raised # None

\* C17: validation, warning evaluation, conversion and PDF generation run in
\* that order; the warning handler runs only after validation returned valid;
\* converter, PDF generator, PDF validator and upload are never invoked in a
\* run whose validation was invalid or whose decision is FAIL; the converter's
\* degraded flag is true exactly when the decision is DEGRADE.
C17_PipelineGating ==
  LET core == SelectSeq(calls, IsPipelineStep)
  IN /\ Len(core) <= Len(PipelineOrder)
     /\ core = SubSeq(PipelineOrder, 1, Len(core))
     /\ Called("evaluate") => valid = Some(TRUE)
     /\ (valid = Some(FALSE) \/ (decision # None /\ decision[1].action = "FAIL"))
          => \A name \in {"convert", "generate", "pdf_validate", "upload"} :
                ~Called(name)
     /\ Called("convert") =>
          /\ decision # None
          /\ degraded_mode = Some(decision[1].action = "DEGRADE")

\* A run that converted in degraded mode and went on to PDF generation.
C17_Witness ==
  /\ Called("generate")
  /\ degraded_mode = Some(TRUE)
  /\ decision[1].action = "DEGRADE"

\* C18: in a run in which any step raised or reported failure, the cleanup
\* after the record update included, Status 'Complete' is never written to
\* the service record; a run that returns success = false has not written it.
C18_NoCompleteOnFatalPath ==
  Failed =>
     \A i \in 1..Len(updates) : ~(StatusOf(i) = "Complete" /\ updates[i].ok)

\* C19: process_service never lets an exception out; when a step of the try
\* block raised, the finished run has made exactly one update with Status
\* 'Failed' and the error text in 'Error Log', and has returned success =
\* false with the same error text, whether or not that update succeeded; a
\* run in which nothing raised makes no 'Failed' update.
C19_FatalCaughtAndReported ==
  /\ rpc # "propagated"
  /\ rpc = "done" => run_result # None
  /\ (rpc = "done" /\ Failed) =>
        /\ Cardinality({i \in 1..Len(updates) : StatusOf(i) = "Failed"}) = 1
        /\ StatusOf(Len(updates)) = "Failed"
        /\ updates[Len(updates)].fields["Error Log"] = raised[1]
        /\ run_result[1].success = FALSE
        /\ run_result[1].error = Some(raised[1])
  /\ ~Failed => \A i \in 1..Len(updates) : StatusOf(i) # "Failed"

\* A policy FAIL whose 'Failed' update did not go through.
C19_Witness ==
  /\ rpc = "done"
  /\ Failed
  /\ decision # None
  /\ decision[1].action = "FAIL"
  /\ ~updates[Len(updates)].ok
  /\ run_result[1].success = FALSE

\* C20: every update with Status 'Complete' or 'Failed' is preceded in the
\* run by an update with Status 'Processing', no 'Processing' update follows
\* a terminal one, and every status update uses the field 'Status', never
\* 'Statuses'.
C20_StatusLifecycle ==
  \A i \in 1..Len(updates) :
     /\ "Status" \in DOMAIN updates[i].fields
     /\ "Statuses" \notin DOMAIN updates[i].fields
     /\ StatusOf(i) \in {"Complete", "Failed"} =>
          \E j \in 1..(i - 1) : StatusOf(j) = "Processing"
     /\ StatusOf(i) = "Processing" =>
          \A j \in 1..(i - 1) : StatusOf(j) \notin {"Complete", "Failed"}

\* ------------------------------------------------------ PDFValidator: claims
PdfValidated == pdf_validation # None
ThePdf == pdf_file[1]
ThePdfValidation == pdf_validation[1]
PageCountUnknown(f) == f.page_count.pages = None
PagesBelowFloor(f) == ~PageCountUnknown(f) /\ f.page_count.pages[1] < min_pages
PagesAboveCeiling(f) == ~PageCountUnknown(f) /\ f.page_count.pages[1] > max_pages
SizeAboveCeiling(f) == f.st_size > max_file_size_mb * 1024 * 1024
VersionIncompatible(f) ==
  f.version # <<>> /\ (Len(f.version) < 2 \/ SubSeq(f.version, 1, 2) # <<"1", ".">>)

\* C21: validate returns valid = false whenever the file size exceeds the
\* ceiling, the page count is below the floor or above the ceiling or cannot
\* be determined, or the PDF version is outside the compatible range; valid
\* is true exactly when the errors list is empty; and process_service fails
\* the run (no upload, the except branch entered) whenever valid is false.
C21_QualityGateFatalOnEveryBound ==
  PdfValidated =>
     /\ ThePdfValidation.valid <=> ThePdfValidation.errors = <<>>
     /\ (ThePdf.exists /\ (\/ SizeAboveCeiling(ThePdf)
                           \/ PagesBelowFloor(ThePdf)
                           \/ PagesAboveCeiling(ThePdf)
                           \/ PageCountUnknown(ThePdf)
                           \/ VersionIncompatible(ThePdf)))
          => ~ThePdfValidation.valid
     /\ ~ThePdfValidation.valid => (Failed /\ ~Called("upload"))

\* -------------------------------------------------------- PDFGenerator: claims
GenerateFinished == gen_pc \in {"returned", "raised"}

\* C22: generate runs the typesetter at most twice; the second pass runs only
\* if the first exited 0; if a pass exits nonzero, or no PDF exists after two
\* passes that exited 0, generate raises and returns no path; a path is
\* returned only after exactly two passes that both exited 0.
C22_TwoPassesAllOrNothing ==
  /\ Len(returncodes) <= 2
  /\ Len(returncodes) = 2 => returncodes[1] = 0
  /\ (\E i \in 1..Len(returncodes) : returncodes[i] # 0)
       => (gen_pc = "raised" /\ gen_result = None)
  /\ (GenerateFinished /\ returncodes = <<0, 0>> /\ ".pdf" \notin out_files)
       => (gen_pc = "raised" /\ gen_result = None)
  /\ gen_result # None => (returncodes = <<0, 0>> /\ gen_pc = "returned")

\* Two passes exited 0, the PDF exists, the path was returned and the
\* auxiliary files are gone.
C22_Witness ==
  /\ gen_pc = "returned"
  /\ gen_result # None
  /\ returncodes = <<0, 0>>
  /\ out_files = {".pdf"}

\* -------------------------------------------------- validate_artifact: claims
Judged == verdict # None
TheVerdict == verdict[1]
TheArtifact == artifact[1]
Present(v) == v # None /\ v # Some("")
MatchesExpected(v, e) == e = None \/ v = e
HasPathAndMessage(e) ==
  e.py = "dict" /\ DOMAIN e.v = {"path", "message"}
Acceptable ==
  /\ Present(TheArtifact.artifact_type)
  /\ Present(TheArtifact.schema_version)
  /\ MatchesExpected(TheArtifact.artifact_type, expected.artifact_type)
  /\ MatchesExpected(TheArtifact.schema_version, expected.schema_version)
  /\ schema_file = "ok"
  /\ TheArtifact.iter_errors = <<>>

\* C23: validate_artifact returns valid = true with an empty errors list
\* exactly when the type and the version are present and non-empty, both
\* match the expected values, a schema is registered for the key and the
\* document conforms to it; otherwise it returns valid = false with a
\* non-empty errors list whose entries all have the shape {path, message}.
C23_SchemaVerdict ==
  Judged =>
     /\ Acceptable <=> (TheVerdict.valid /\ TheVerdict.errors = <<>>)
     /\ ~Acceptable =>
          /\ ~TheVerdict.valid
          /\ TheVerdict.errors # <<>>
          /\ \A i \in 1..Len(TheVerdict.errors) :
                HasPathAndMessage(TheVerdict.errors[i])

\* ------------------------------------------------------------ app.py: claims
ContainsServiceId(b) == b.kind = "object" /\ "service_id" \in b.keys

\* The number of process_service invocations made up to and including
\* request i.
InvokedUpTo(i) ==
  Cardinality({j \in 1..i : responses[j].invoked = 1})

\* C24: a POST /process whose JSON body contains service_id causes exactly
\* one process_service invocation and returns that invocation's result, with
\* status 200 when success is true and 500 when it is false; a body without
\* service_id returns 400 without invoking the processor; GET /health
\* returns the healthy response whatever was processed before.
C24_HttpFrontEnd ==
  \A i \in 1..Len(responses) :
     LET r == responses[i]
     IN /\ (r.route = "/process" /\ ContainsServiceId(r.request)) =>
             /\ r.invoked = 1
             /\ r.body = invocations[InvokedUpTo(i)]
             /\ r.status = (IF r.body.success THEN 200 ELSE 500)
        /\ (r.route = "/process" /\ ~ContainsServiceId(r.request)) =>
             /\ r.status = 400
             /\ r.invoked = 0
        /\ r.route = "/health" =>
             /\ r.status = 200
             /\ r.body.status = "healthy"

\* ------------------------------------------ _get_formatting_parameters: claims
ParamKeys ==
  {"trim_size", "font", "chapter_style", "genre", "author_name", "book_title"}
DocumentedDefaults ==
  [trim_size |-> "6x9", font |-> "Garamond", chapter_style |-> "numbered",
   genre |-> "fiction", author_name |-> "Author", book_title |-> "Untitled"]
ProjectLinkMissing == service_project = None \/ service_project = Some(<<>>)
ProjectRecordMissing == project_lookup.outcome = "none"
MetadataLinkMissing ==
  /\ project_lookup.outcome = "found"
  /\ project_lookup.fields.links \in {None, Some(<<>>)}
MetadataRecordMissing == metadata_lookup.outcome = "none"
SomeLookupRaises ==
  \/ project_lookup.outcome = "raises"
  \/ project_lookup.outcome = "found" /\ metadata_lookup.outcome = "raises"

\* C25: _get_formatting_parameters always returns a mapping with all six
\* keys; when the Project link, the Project record, the Book Metadata link
\* or the Book Metadata record is missing, or a lookup raises, the mapping
\* is exactly the defaults.
C25_ParamsNeverFail ==
  params # None =>
     /\ DOMAIN params[1] = ParamKeys
     /\ (\/ ProjectLinkMissing
         \/ ProjectRecordMissing
         \/ MetadataLinkMissing
         \/ (project_lookup.outcome = "found" /\ MetadataRecordMissing)
         \/ SomeLookupRaises)
          => params[1] = DocumentedDefaults

\* The whole chain resolves and the metadata has a title but no trim size:
\* the title comes from the record, the trim size from the defaults.
C25_Witness ==
  /\ params # None
  /\ ~ProjectLinkMissing /\ ~ProjectRecordMissing /\ ~MetadataLinkMissing
  /\ metadata_lookup.outcome = "found"
  /\ DOMAIN metadata_lookup.fields = {"Book Title"}
  /\ params[1].book_title = "My Book"
  /\ params[1].trim_size = "6x9"

\* ------------------------------------------- _apply_marks on disjoint spans
\* The command of a mark type, "" for a type that has none.
CommandOf(ty) ==
  CASE ty = "italic" -> <<"\\", "t", "e", "x", "t", "i", "t">>
    [] ty = "bold" -> <<"\\", "t", "e", "x", "t", "b", "f">>
    [] ty = "smallcaps" -> <<"\\", "t", "e", "x", "t", "s", "c">>
    [] ty = "code" -> <<"\\", "t", "e", "x", "t", "t", "t">>
    [] OTHER -> <<>>

\* What the claim says a span becomes.
SpanOutput(t, m) ==
  LET esc == escape_latex(SubSeq(t, m.start + 1, m.end))
  IN IF CommandOf(m.type) = <<>> THEN esc
     ELSE CommandOf(m.type) \o <<"{">> \o esc \o <<"}">>

\* The text read left to right from offset i: a span where a mark starts,
\* the character itself where no mark covers it.
RECURSIVE SpansAndFrame(_, _, _)
SpansAndFrame(t, ms, i) ==
  IF i >= Len(t) THEN <<>>
  ELSE IF \E j \in 1..Len(ms) : ms[j].start = i
    THEN LET m == ms[CHOOSE j \in 1..Len(ms) : ms[j].start = i]
         IN SpanOutput(t, m) \o SpansAndFrame(t, ms, m.end)
    ELSE <<t[i + 1]>> \o SpansAndFrame(t, ms, i + 1)

Covered(i) == \E j \in 1..Len(marks) : marks[j].start < i /\ i <= marks[j].end

\* C26: with a non-empty collection of non-overlapping marks, the output is
\* the text with every character outside all spans unchanged (not escaped)
\* and every span replaced by its escaped text in the command of its mark
\* type, or by its escaped text alone when the type is unknown.
C26_FrameAndSpans ==
  (pc = "done" /\ marks # <<>> /\ NonOverlapping(marks)) =>
     result = SpansAndFrame(text, marks, 0)

\* A reserved character outside the spans stays as it is, next to a
\* smallcaps span and a code span whose reserved characters are escaped.
C26_Witness ==
  /\ pc = "done"
  /\ Len(marks) = 2
  /\ NonOverlapping(marks)
  /\ {marks[1].type, marks[2].type} = {"smallcaps", "code"}
  /\ \E i \in 1..Len(text) : text[i] = "&" /\ ~Covered(i)
  /\ \E i \in 1..Len(text) : text[i] = "&" /\ Covered(i)

\* ------------------------------------------- _find_manuscript_artifact: claims
FindDone == find_pc \in {"returned", "failed", "download"}

\* The dependency can be fetched, its first Service Type link resolves to
\* 'Manuscript Processing', and its Artifact URL is non-empty.
Qualifies(d) ==
  /\ d.fetched
  /\ d.links # <<>>
  /\ d.links[1] = "t_ms"
  /\ d.url \notin {None, Some("")}
QualifyingIndexes == {i \in 1..Len(dependencies) : Qualifies(dependencies[i])}

\* C27: _find_manuscript_artifact returns the Artifact URL of the first
\* qualifying dependency in list order, skipping the others; it returns None
\* when the list is empty or nothing qualifies, and process_service then
\* fails the run without downloading anything.
C27_FirstQualifyingDependency ==
  FindDone =>
     /\ QualifyingIndexes # {} =>
          LET first == CHOOSE i \in QualifyingIndexes :
                          \A j \in QualifyingIndexes : i <= j
          IN manuscript_artifact_url = dependencies[first].url
     /\ QualifyingIndexes = {} => manuscript_artifact_url = None
     /\ manuscript_artifact_url = None => (downloaded = None /\ find_pc # "download")
     /\ downloaded # None => downloaded = manuscript_artifact_url

\* A Manuscript Processing dependency without a URL is skipped; the URL of
\* the one behind it is returned and downloaded.
C27_Witness ==
  /\ find_pc = "download"
  /\ Len(dependencies) = 2
  /\ dependencies[1].fetched
  /\ dependencies[1].links = <<"t_ms">>
  /\ dependencies[1].url = Some("")
  /\ Qualifies(dependencies[2])
  /\ downloaded = dependencies[2].url

\* ---------------------------------------------------- ArtifactRegistry: claims
IsGet(i) == reg_log[i].op = "get_schema"
Succeeded(i) == IsGet(i) /\ reg_log[i].outcome = "returned"
NoClearBetween(i, j) ==
  \A m \in (i + 1)..(j - 1) : reg_log[m].op # "clear_cache"
SameOn(f, g, keys) ==
  \A c \in keys :
     /\ c \in DOMAIN f <=> c \in DOMAIN g
     /\ c \in DOMAIN f => f[c] = g[c]

\* C28: once get_schema succeeded for a key, every later get_schema for
\* that key before the next clear_cache returns the same schema and does
\* not read the file; a get_schema that raises leaves the cache as it was;
\* a get_schema leaves the entries of the other keys as they were; every
\* get_default_registry that returns, returns the same instance.
C28_LoadOnceAndReuse ==
  /\ \A i, j \in 1..Len(reg_log) :
        (i < j /\ Succeeded(i) /\ IsGet(j) /\ reg_log[j].key = reg_log[i].key
           /\ NoClearBetween(i, j))
          => /\ reg_log[j].outcome = "returned"
             /\ reg_log[j].schema = reg_log[i].schema
             /\ ~reg_log[j].read
  /\ \A i \in 1..Len(reg_log) :
        IsGet(i) =>
          /\ ~Succeeded(i) => reg_log[i].after = reg_log[i].before
          /\ SameOn(reg_log[i].before, reg_log[i].after,
                    CacheKeys \ {reg_log[i].key})
  /\ \A i, j \in 1..Len(reg_log) :
        (reg_log[i].op = "get_default_registry"
           /\ reg_log[j].op = "get_default_registry"
           /\ reg_log[i].outcome = "returned" /\ reg_log[j].outcome = "returned")
          => reg_log[i].schema = reg_log[j].schema

\* A schema is loaded, its file is replaced by another text, and the next
\* lookup of the key still returns the first text without reading the file.
C28_Witness ==
  /\ Len(reg_log) >= 2
  /\ Succeeded(1) /\ reg_log[1].read
  /\ Succeeded(2) /\ reg_log[2].key = reg_log[1].key
  /\ ~reg_log[2].read
  /\ schema_files[reg_log[1].key] # reg_log[1].schema[1]
  /\ reg_log[2].schema = reg_log[1].schema

\* ------------------------------------------- process_service: persistence
Finished == rpc = "done" /\ run_result # None
CompleteWrites == {i \in 1..Len(updates) : StatusOf(i) = "Complete"}

\* C29: process_service returns success = true only if the update that
\* writes Status 'Complete' with the Artifact URL and Artifact Key
\* succeeded; if that update fails, the run does not report success and the
\* record is not left in 'Processing'.
C29_SuccessMeansPersisted ==
  Finished =>
     /\ run_result[1].success =>
          \E i \in CompleteWrites :
             /\ updates[i].ok
             /\ {"Artifact URL", "Artifact Key"} \subseteq DOMAIN updates[i].fields
     /\ (\E i \in CompleteWrites : ~updates[i].ok) =>
          /\ ~run_result[1].success
          /\ record["Status"] # "Processing"

\* ------------------------------------------- interleaved runs: the claim step
\* C30: of two interleaved invocations for one service id at most one goes
\* past _claim_service to convert and upload, and a record whose Status is
\* 'Complete' is never overwritten with 'Processing' or 'Failed' by another
\* invocation.
\* The invocation whose successful write gave the record the Status that
\* write i found.
WriterBefore(i) ==
  LET oks == {j \in 1..(i - 1) : status_writes[j].ok}
  IN status_writes[CHOOSE j \in oks : \A m \in oks : m <= j].inv

C30_ClaimIsExclusive ==
  /\ Cardinality(worked) <= 1
  /\ \A i \in 1..Len(status_writes) :
        (status_writes[i].before = "Complete" /\ status_writes[i].ok
           /\ WriterBefore(i) # status_writes[i].inv)
          => status_writes[i].status \notin {"Processing", "Failed"}

====
